---- MODULE Spec2Model ----
(***************************************************************************)
(* The BESO iteration cycle of beso_main.py as a state machine: one action *)
(* per stage of a loop pass, the run parameters drawn in Init.             *)
(* Masses, densities and result values are exact integers or rationals     *)
(* <<numerator, denominator>>; floating-point rounding is not modelled.    *)
(***************************************************************************)
EXTENDS Integers, Sequences, FiniteSets, TLC

\* ------------------------------------------------------------ bounds
\* largest iterations_limit drawn by Spec
MaxLimit == 1
\* largest iterations_limit drawn by SpecExport
MaxExportLimit == 3
\* largest iterations_limit drawn by SpecMass
MaxMassLimit == 1
\* largest iterations_limit drawn by SpecOsc
MaxOscLimit == 3
\* largest iterations_limit drawn by SpecConv
MaxConvLimit == 6
\* largest iterations_limit drawn by SpecGoal
MaxGoalLimit == 2
\* largest iterations_limit drawn by SpecFiles
MaxFilesLimit == 2
\* largest iterations_limit drawn by SpecFilters
MaxFilterLimit == 1
MaxFILimit == 1
MaxExcessLimit == 2
MaxStepsLimit == 1
MaxAvgLimit == 2
MaxFrameLimit == 2
MaxFinalLimit == 6
\* passes of the while loops of the automatic limit followed before the loop counts as endless
MaxAutoSteps == 6
\* the safety margin added to the expected number of steps
Margin == 25

\* ------------------------------------------------------------ helpers
RECURSIVE GCD(_, _)
GCD(a, b) == IF b = 0 THEN a ELSE GCD(b, a % b)

Abs(x) == IF x < 0 THEN -x ELSE x

\* exact rationals <<n, d>> with d > 0, kept in lowest terms
Rat(n, d) == LET g == GCD(Abs(n), d) IN IF g = 0 THEN <<0, 1>> ELSE <<n \div g, d \div g>>
RLt(a, b) == a[1] * b[2] < b[1] * a[2]
RLe(a, b) == a[1] * b[2] <= b[1] * a[2]
REq(a, b) == a[1] * b[2] = b[1] * a[2]
RMul(a, b) == Rat(a[1] * b[1], a[2] * b[2])
RInt(n) == <<n, 1>>
RSub(a, b) == Rat(a[1] * b[2] - b[1] * a[2], a[2] * b[2])
RAbs(a) == <<Abs(a[1]), a[2]>>
\* a / b for b > 0
RDiv(a, b) == Rat(a[1] * b[2], a[2] * b[1])
RMaxOf(S) == CHOOSE x \in S : \A y \in S : RLe(y, x)
RAdd(a, b) == Rat(a[1] * b[2] + b[1] * a[2], a[2] * b[2])

\* Python list indexing: negative indices count from the end, anything
\* outside -len..len-1 raises IndexError
PyInRange(seq, s) == s >= -Len(seq) /\ s < Len(seq)
PyIndex(seq, s) == IF s < 0 THEN seq[Len(seq) + s + 1] ELSE seq[s + 1]

RECURSIVE SumOver(_, _)
SumOver(S, f) == IF S = {} THEN 0
                 ELSE LET x == CHOOSE y \in S : TRUE IN f[x] + SumOver(S \ {x}, f)

RECURSIVE RSumOver(_, _)
RSumOver(S, f) == IF S = {} THEN <<0, 1>>
                  ELSE LET x == CHOOSE y \in S : TRUE IN RAdd(f[x], RSumOver(S \ {x}, f))

RECURSIVE SeqSum(_)
SeqSum(s) == IF s = <<>> THEN 0 ELSE Head(s) + SeqSum(Tail(s))

Range(s) == {s[k] : k \in 1..Len(s)}

\* np.mod(float(i), n) == 0
OnCadence(n, k) == n # 0 /\ k % n = 0

\* ------------------------------------------------------------ the mesh and the domain tables
\* The imported mesh: three element sets. "solid" holds two volume elements,
\* "shell" one shell element, "fixed" one volume element.
DomainNames == {"solid", "shell", "fixed"}
domains == [dn \in DomainNames |->
              CASE dn = "solid" -> {1, 2}
                [] dn = "shell" -> {3}
                [] dn = "fixed" -> {4}]
shell_elements == {3}
volume_elements == {1, 2, 4}
volume_elm == [en \in volume_elements |-> IF en = 2 THEN 2 ELSE 1]
area_elm == [en \in shell_elements |-> 1]

\* per-domain state tables of the configuration file
domain_optimized == [dn \in DomainNames |-> dn # "fixed"]
domain_density == [dn \in DomainNames |->
              CASE dn = "solid" -> <<1, 3>>
                [] dn = "shell" -> <<1, 2, 4>>
                [] dn = "fixed" -> <<5>>]
domain_thickness == [dn \in DomainNames |->
              CASE dn = "solid" -> <<>>
                [] dn = "shell" -> <<1, 1, 2>>
                [] dn = "fixed" -> <<>>]

domain_shells(dn) == domains[dn] \cap shell_elements
domain_volumes(dn) == domains[dn] \cap volume_elements

ElementsOf(dfc) == UNION {domains[dfc[k]] : k \in 1..Len(dfc)}
opt_domains(dfc) == UNION {domains[dfc[k]] : k \in {j \in 1..Len(dfc) : domain_optimized[dfc[j]]}}
DomainOf(en) == CHOOSE dn \in DomainNames : en \in domains[dn]

\* mass of one element in state s: density x volume, or density x area x thickness
ElementMass(en, s) ==
    LET dn == DomainOf(en) IN
    IF en \in shell_elements
    THEN PyIndex(domain_density[dn], s) * area_elm[en] * PyIndex(domain_thickness[dn], s)
    ELSE PyIndex(domain_density[dn], s) * volume_elm[en]

\* the sum the mass ledger is meant to hold for an assignment es
MassOf(dfc, es) == SumOver(opt_domains(dfc), [en \in opt_domains(dfc) |-> ElementMass(en, es[en])])

HighestState(dn) == Len(domain_density[dn]) - 1

\* ------------------------------------------------------------ state
VARIABLES
    conf,                   \* the run parameters (beso_conf.py), fixed for the run
    calculix,               \* the installed solver and the analysis: the exit statuses it
                            \* can return, the result sets and values its files can hold
    pc,                     \* the stage of the loop pass to run next
    exception,              \* the uncaught exception that ended the run, "" if none
    i,
    file_nameW,             \* the iteration number in the stem "file" + str(i).zfill(3)
    i_violated,
    continue_iterations,
    check_tolerance,
    mass_excess,
    oscillations,
    elm_states,
    elm_states_last,
    elm_states_before_last, \* [set |-> FALSE] stands for the empty dict {}
    aliased,                \* elm_states_last and elm_states name one dict object
    mass,                   \* the mass ledger, mass[k + 1] is Python's mass[k]
    mass_goal_i,            \* [set |-> FALSE] while the name mass_goal_i is unbound
    exit_status,
    results,                \* what the last result import returned
    FI_step_max,
    FI_violated,
    FI_mean,
    energy_density_mean,
    log,                    \* the kinds of message written to the log so far
    exported,               \* the result files written so far
    ran,                    \* <<stage, pass>>: the stages executed so far, in order
    elm_states_history,     \* the assignment after each iteration, the initial one first
    pass_start,              \* elm_states and mass when the current loop pass began
    files,  \* the solver artifacts on disk, <<iteration of the stem, kind>>
    removed,  \* the solver artifacts removed so far
    prepared,  \* what filter preparation set up for each filter_list entry
    sensitivity_number,  \* per element [v, by]: the value and the filter_list entries that filtered it (0: averaging)
    sensitivity_number_old,
    applied,  \* the elements each filter_list entry was applied to in the last sensitivity and state stage
    switched,  \* the last switching call: the mass_excess handed to it, the states and the mass entry it gave
    iterations_limit  \* the limit in force: [auto, n], auto while it is the string "auto"

vars == <<conf, calculix, pc, exception, i, file_nameW, i_violated, continue_iterations, check_tolerance,
          mass_excess, oscillations, elm_states, elm_states_last, elm_states_before_last,
          aliased, mass, mass_goal_i, exit_status, results, FI_step_max, FI_violated,
          FI_mean, energy_density_mean, log, exported, ran, elm_states_history, pass_start,
          files,
          removed,
          prepared,
          sensitivity_number,
          sensitivity_number_old,
          applied,
          switched,
          iterations_limit>>

\* ------------------------------------------------------------ initialisation
\* initialize element states: an integer continue_from is capped at the
\* highest state of each domain, any other value starts from the highest state
InitialState(cf, dn) ==
    IF cf.kind = "int"
    THEN IF HighestState(dn) < cf.v THEN HighestState(dn) ELSE cf.v
    ELSE HighestState(dn)

InitialElmStates(c) ==
    [en \in ElementsOf(c.domains_from_config) |-> InitialState(c.continue_from, DomainOf(en))]

\* mass_full: every optimized element in the highest state of its domain
MassFull(dfc) ==
    MassOf(dfc, [en \in ElementsOf(dfc) |-> HighestState(DomainOf(en))])

\* mass[0]
InitialMass(c) == MassOf(c.domains_from_config, InitialElmStates(c))


InitWith(Confs, Solvers) ==
    /\ conf \in Confs
    /\ calculix \in Solvers
    /\ pc = "auto_limit"
    /\ exception = ""
    /\ i = 0
    /\ i_violated = 0
    /\ continue_iterations = TRUE
    /\ check_tolerance = FALSE
    /\ mass_excess = 0
    /\ oscillations = FALSE
    /\ elm_states = InitialElmStates(conf)
    /\ elm_states_last = InitialElmStates(conf)
    /\ elm_states_before_last = [set |-> FALSE, v |-> InitialElmStates(conf)]
    /\ aliased = TRUE
    /\ mass = <<InitialMass(conf)>>
    /\ mass_goal_i = [set |-> FALSE, v |-> <<0, 1>>]
    /\ exit_status = 0
    /\ results = [present |-> {}, energy |-> <<>>, FI |-> <<>>, unusable |-> {}]
    /\ FI_step_max = [en \in ElementsOf(conf.domains_from_config) |-> <<0, 1>>]
    /\ file_nameW = 0
    /\ FI_violated = <<>>
    /\ FI_mean = <<>>
    /\ energy_density_mean = <<>>
    /\ log = IF \E k \in 1..Len(conf.domains_from_config) :
                   conf.continue_from.kind = "int"
                   /\ HighestState(conf.domains_from_config[k]) < conf.continue_from.v
             THEN {"INFO: set to the highest state"} ELSE {}
    /\ exported = {}
    /\ ran = <<>>
    /\ elm_states_history = <<InitialElmStates(conf)>>
    /\ files = {}
    /\ removed = {}
    /\ prepared = <<>>
    /\ sensitivity_number = [en \in ElementsOf(conf.domains_from_config) |-> [v |-> <<0, 1>>, by |-> <<>>]]
    /\ sensitivity_number_old = [en \in ElementsOf(conf.domains_from_config) |-> [v |-> <<0, 1>>, by |-> <<>>]]
    /\ applied = [sensitivity |-> <<>>, state |-> <<>>]
    /\ switched = [mass_excess |-> 0, elm_states |-> InitialElmStates(conf), mass |-> InitialMass(conf)]
    /\ iterations_limit = [auto |-> conf.iterations_limit_auto, n |-> conf.iterations_limit]
    /\ pass_start = [elm_states |-> InitialElmStates(conf), mass |-> <<InitialMass(conf)>>]

Elems == ElementsOf(conf.domains_from_config)
Stage(name, k) == ran' = Append(ran, <<name, k>>)
Ran(name, k) == \E n \in 1..Len(ran) : ran[n] = <<name, k>>
Raise(name) == pc' = "failed" /\ exception' = name

\* ------------------------------------------------------------ automatic iterations_limit
\* int(): the integer part, towards zero
PyInt(a) == IF a[1] >= 0 THEN a[1] \div a[2] ELSE -((-a[1]) \div a[2])

\* the while loops of the relative ratio type: the count it when the
\* loop ends, -1 when it is still going after fuel further passes
RECURSIVE RelativeSteps(_, _, _, _, _)
RelativeSteps(m, goal, net, it, fuel) ==
    IF RLt(<<0, 1>>, net)
    THEN IF RLt(goal, m)
         THEN IF fuel = 0 THEN -1
              ELSE RelativeSteps(RSub(m, RMul(m, net)), goal, net, it + 1, fuel - 1)
         ELSE it
    ELSE IF RLt(m, goal)
         THEN IF fuel = 0 THEN -1
              ELSE RelativeSteps(RAdd(m, RMul(m, RSub(<<0, 1>>, net))), goal, net, it + 1, fuel - 1)
         ELSE it

\* the absolute ratio type, net # 0: the goal is passed second when removing, first when adding
AbsoluteLimit(m, goal, net) ==
    IF RLt(<<0, 1>>, net)
    THEN PyInt(RAdd(RDiv(RSub(m, goal), net), <<Margin, 1>>))
    ELSE PyInt(RAdd(RDiv(RSub(goal, m), RSub(<<0, 1>>, net)), <<Margin, 1>>))

\* automatic setting of iterations_limit: the limit, "auto" left in place, or
\* a loop that does not end
AutoLimit ==
    /\ pc = "auto_limit"
    /\ IF ~iterations_limit.auto
       THEN pc' = "prepare_filters" /\ UNCHANGED <<iterations_limit, exception>>
       ELSE IF MassFull(conf.domains_from_config) = 0
       THEN Raise("ZeroDivisionError") /\ UNCHANGED iterations_limit
       ELSE LET m == Rat(mass[1], MassFull(conf.domains_from_config))
                net == RSub(conf.mass_removal_ratio, conf.mass_addition_ratio)
                it == RelativeSteps(m, conf.mass_goal_ratio, net, 0, MaxAutoSteps) IN
            IF conf.ratio_type = "absolute" /\ ~REq(net, <<0, 1>>)
            THEN /\ iterations_limit' =
                       [auto |-> FALSE, n |-> AbsoluteLimit(m, conf.mass_goal_ratio, net)]
                 /\ pc' = "prepare_filters"
                 /\ UNCHANGED exception
            ELSE IF conf.ratio_type = "relative"
            THEN IF it = -1
                 THEN pc' = "auto_limit_loop" /\ UNCHANGED <<iterations_limit, exception>>
                 ELSE /\ iterations_limit' = [auto |-> FALSE, n |-> it + Margin]
                      /\ pc' = "prepare_filters"
                      /\ UNCHANGED exception
            ELSE pc' = "prepare_filters" /\ UNCHANGED <<iterations_limit, exception>>
    /\ UNCHANGED <<files, removed, prepared, sensitivity_number, sensitivity_number_old, applied,
                   switched, conf, calculix, i, file_nameW, i_violated, continue_iterations,
                   check_tolerance, mass_excess, oscillations, elm_states, elm_states_last,
                   elm_states_before_last, aliased, mass, mass_goal_i, exit_status, results,
                   FI_step_max, FI_violated, FI_mean, energy_density_mean, log, exported,
                   pass_start, ran, elm_states_history>>

\* ------------------------------------------------------------ filter preparation
\* A filter_list entry is [kind, range, auto, targets]: kind is ft[0] split into
\* its words (<<>> for the empty string), range is ft[1] when it is a number,
\* auto tells that ft[1] is "auto", targets is ft[2:].
MorphologyOps == {"erode", "dilate", "open", "close", "open-close", "close-open", "combine"}
\* the guard with the range left out
FilterActive_KindOnly(ft) == ft.kind # <<>>

\* if ft[0] and ft[1]
FilterActive(ft) == ft.kind # <<>> /\ (ft.auto \/ ft.range # 0)

\* domains_to_filter of a non-casting filter in the loop: all of ft[2:]
domains_to_filter(c, ft) ==
    IF ft.targets = <<>> THEN opt_domains(c.domains_from_config)
    ELSE UNION {domains[ft.targets[k]] : k \in 1..Len(ft.targets)}

\* beso_filters.find_size_elm: the size of each element
size_elm == [en \in 1..4 |-> IF en = 2 THEN 3 ELSE IF en = 4 THEN 4 ELSE en]

\* beso_filters.get_filter_range: the average element size over the domains named
get_filter_range(dns) ==
    LET ens == UNION {domains[dns[k]] : k \in 1..Len(dns)} IN
    Rat(SumOver(ens, size_elm), Cardinality(ens))

\* the union of the elements of the domains named in dns
ElementsNamed(dns) == UNION {domains[dns[k]] : k \in 1..Len(dns)}

\* the kinds of filter for which preparation builds a search structure
PreparedKind(ft) ==
    \/ ft.kind \in {<<"casting">>, <<"over", "points">>, <<"over", "nodes">>, <<"simple">>}
    \/ ft.kind[1] \in MorphologyOps

\* one entry of the preparation loop: st is [filtered_dn, out, exc], filtered_dn
\* the loop's variable of that name ([set |-> FALSE] while it is unbound)
PrepareEntry(c, ft, st) ==
    IF ~FilterActive(ft) THEN [st EXCEPT !.out = Append(st.out, [prepared |-> FALSE, elements |-> {}, f_range |-> <<0, 1>>])]
    ELSE
    LET casting == ft.kind = <<"casting">>
        named == IF Len(ft.targets) = 0 THEN <<>> ELSE Tail(ft.targets)
        default == IF casting THEN Len(ft.targets) = 1 ELSE Len(ft.targets) = 0
        prepared_for == IF default THEN opt_domains(c.domains_from_config)
                             ELSE ElementsNamed(named)
        filtered_dn == IF default
                       THEN IF casting THEN st.filtered_dn
                            ELSE [set |-> TRUE, v |-> c.domains_from_config]
                       ELSE [set |-> TRUE, v |-> named]
    IN IF casting /\ Len(ft.targets) = 0 THEN [st EXCEPT !.exc = "IndexError"]
       ELSE IF ft.auto /\ ~filtered_dn.set THEN [st EXCEPT !.exc = "NameError"]
       ELSE IF ft.auto /\ ElementsNamed(filtered_dn.v) = {}
       THEN [st EXCEPT !.exc = "ZeroDivisionError", !.filtered_dn = filtered_dn]
       ELSE [st EXCEPT !.filtered_dn = filtered_dn,
                       !.out = Append(st.out,
                                  [prepared |-> PreparedKind(ft),
                                   elements |-> IF PreparedKind(ft) THEN prepared_for ELSE {},
                                   f_range |-> IF ft.auto
                                               THEN RMul(RInt(2), get_filter_range(filtered_dn.v))
                                               ELSE RInt(ft.range)])]

\* the preparation loop from entry k on
RECURSIVE PrepareFrom(_, _, _)
PrepareFrom(c, k, st) ==
    IF k > Len(c.filter_list) \/ st.exc # "" THEN st
    ELSE PrepareFrom(c, k + 1, PrepareEntry(c, c.filter_list[k], st))

\* preparing parameters for filtering sensitivity numbers
PrepareFilters ==
    /\ pc = "prepare_filters"
    /\ LET out == PrepareFrom(conf, 1, [filtered_dn |-> [set |-> FALSE, v |-> <<>>],
                                        out |-> <<>>, exc |-> ""]) IN
          /\ prepared' = out.out
          /\ IF out.exc # "" THEN Raise(out.exc)
             ELSE pc' = "write_inp" /\ UNCHANGED exception
    /\ UNCHANGED <<files, removed, sensitivity_number, sensitivity_number_old, applied, switched, iterations_limit, conf, calculix, i, file_nameW, i_violated, continue_iterations,
                   check_tolerance, mass_excess, oscillations, elm_states, elm_states_last,
                   elm_states_before_last, aliased, mass, mass_goal_i, exit_status, results,
                   FI_step_max, FI_violated, FI_mean, energy_density_mean, log, exported,
                   pass_start, ran,
                   elm_states_history>>


\* creating the new .inp file for CalculiX
WriteInp ==
    /\ pc = "write_inp"
    /\ file_nameW' = i
    /\ files' = files \cup {<<i, "inp">>}
    /\ pass_start' = [elm_states |-> elm_states, mass |-> mass]
    /\ Stage("write_inp", i)
    /\ pc' = "run_calculix"
    /\ UNCHANGED <<removed, prepared, sensitivity_number, sensitivity_number_old, applied, switched, iterations_limit, conf, calculix, exception, i, i_violated, continue_iterations, check_tolerance,
                   mass_excess, oscillations, elm_states, elm_states_last, elm_states_before_last,
                   aliased, mass, mass_goal_i, exit_status, results, FI_step_max, FI_violated,
                   FI_mean, energy_density_mean, log, exported,
                   elm_states_history>>

\* check CalculiX exit status: the message written for a status
ExitStatusMessages(st) ==
    IF st = 201 THEN {"ERROR: CalculiX exit status 201"}
    ELSE IF st = 1 THEN {"ERROR: CalculiX exit status 1"}
    ELSE IF st # 0 THEN {"ERROR: CalculiX exit status"}
    ELSE {}

\* the pass going past the result import after the exit status was checked
AfterExitStatus_PastImport(st) == "check_results"

\* where the pass goes after the exit status was checked
AfterExitStatus(st) == "import_results"

\* running CalculiX analysis
RunCalculiX ==
    /\ pc = "run_calculix"
    /\ \E st \in calculix.status :
          /\ exit_status' = st
          /\ log' = log \cup ExitStatusMessages(st)
          /\ pc' = AfterExitStatus(st)
    /\ \E written \in calculix.artifacts :
          files' = files \cup {<<file_nameW, kind>> : kind \in written}
    /\ Stage("run_calculix", i)
    /\ UNCHANGED <<removed, prepared, sensitivity_number, sensitivity_number_old, applied, switched, iterations_limit, conf, calculix, exception, i, file_nameW, i_violated, continue_iterations,
                   check_tolerance, mass_excess, oscillations, elm_states, elm_states_last,
                   elm_states_before_last, aliased, mass, mass_goal_i, results, FI_step_max,
                   FI_violated, FI_mean, energy_density_mean, exported, pass_start,
                   elm_states_history>>

\* what the solver's result files can hold: every quantity, all but one, or none
ResultKinds == {"energy", "buckling", "heat", "FI"}
PresentChoices == {ResultKinds, {}} \cup {ResultKinds \ {k} : k \in ResultKinds}
EnergyValues == {1, 2}
\* failure indices are positive ratios; 1 and above violates the limit
FIValues == {<<1, 2>>, <<1, 1>>, <<2, 1>>}

\* reading results and computing failure indices: the values come from the
\* solver's files; only the quantities the run reads are drawn
\* a failure index of one criterion: a ratio, or None where the criterion
\* does not apply to the element
None == [none |-> TRUE, v |-> <<0, 1>>]
Value(v) == [none |-> FALSE, v |-> v]
\* the lists FI_step[sn][en] can be: one entry per criterion, None in the
\* slots a pattern of cx.criteria marks FALSE
CriteriaLists(cx) ==
    UNION {{[k \in 1..Len(p) |-> IF p[k] THEN Value(v[k]) ELSE None] :
               v \in [1..Len(p) -> cx.FI]} : p \in cx.criteria}
AllNone(cx) ==
    LET p == CHOOSE q \in cx.criteria : TRUE IN [k \in 1..Len(p) |-> None]

ImportResults ==
    /\ pc = "import_results"
    /\ \E present \in calculix.files, n \in calculix.steps, none \in calculix.unusable :
       \E en_vals \in (IF \/ conf.optimization_base = "stiffness" /\ "energy" \in present
                          \/ conf.optimization_base = "heat" /\ "heat" \in present
                       THEN [1..n -> [Elems -> calculix.energy]]
                       ELSE {[sn \in 1..n |-> [en \in Elems |-> 1]]}),
          fi_vals \in (IF conf.domain_FI_filled /\ "FI" \in present
                       THEN [1..n -> [Elems -> CriteriaLists(calculix)]]
                       ELSE {[sn \in 1..n |-> [en \in Elems |-> <<Value(<<1, 2>>)>>]]}) :
          results' = [present |-> present, energy |-> en_vals,
                      FI |-> [sn \in 1..n |->
                                 [en \in Elems |->
                                     IF conf.domain_FI_filled /\ en \in none /\ sn = 1
                                     THEN AllNone(calculix) ELSE fi_vals[sn][en]]],
                      unusable |-> IF conf.domain_FI_filled THEN none \cap Elems ELSE {}]
    /\ Stage("import_results", i)
    /\ pc' = "check_results"
    /\ UNCHANGED <<files, removed, prepared, sensitivity_number, sensitivity_number_old, applied, switched, iterations_limit, conf, calculix, exception, i, file_nameW, i_violated, continue_iterations,
                   check_tolerance, mass_excess, oscillations, elm_states, elm_states_last,
                   elm_states_before_last, aliased, mass, mass_goal_i, exit_status, FI_step_max,
                   FI_violated, FI_mean, energy_density_mean, log, exported, pass_start,
                   elm_states_history>>

\* the check with the failure-index branch tied to the failure_index objective
missing_ccx_results_ByObjective(c, r) ==
    IF c.optimization_base = "stiffness" THEN "energy" \notin r.present
    ELSE IF c.optimization_base = "buckling" THEN "buckling" \notin r.present
    ELSE IF c.optimization_base = "heat" THEN "heat" \notin r.present
    ELSE c.domain_FI_filled /\ "FI" \notin r.present

\* check if results were found
missing_ccx_results(c, r) ==
    IF c.optimization_base = "stiffness" /\ "energy" \notin r.present THEN TRUE
    ELSE IF c.optimization_base = "buckling" /\ "buckling" \notin r.present THEN TRUE
    ELSE IF c.optimization_base = "heat" /\ "heat" \notin r.present THEN TRUE
    ELSE IF c.domain_FI_filled /\ "FI" \notin r.present THEN TRUE
    ELSE FALSE

CheckResults ==
    /\ pc = "check_results"
    /\ IF missing_ccx_results(conf, results)
       THEN /\ log' = log \cup {"ERROR: CalculiX results not found"}
            /\ Raise("AssertionError")
       ELSE /\ pc' = "sensitivity"
            /\ UNCHANGED <<log, exception>>
    /\ Stage("check_results", i)
    /\ UNCHANGED <<files, removed, prepared, sensitivity_number, sensitivity_number_old, applied, switched, iterations_limit, conf, calculix, i, file_nameW, i_violated, continue_iterations,
                   check_tolerance, mass_excess, oscillations, elm_states, elm_states_last,
                   elm_states_before_last, aliased, mass, mass_goal_i, exit_status, results,
                   FI_step_max, FI_violated, FI_mean, energy_density_mean, exported, pass_start,
                   elm_states_history>>

\* handling with more steps: the per-element maximum failure index and the
\* per-domain count of elements with FI_step_max >= 1
\* list(filter(lambda a: a is not None, FI_step[sn][en]))
FI_step_en(cell) == {cell[k].v : k \in {j \in 1..Len(cell) : ~cell[j].none}}

\* FI_step_max[en] = max(FI_step_max[en], max(FI_step_en)) over the steps, from 0
RECURSIVE MaxOverSteps(_, _, _)
MaxOverSteps(steps, en, acc) ==
    IF steps = <<>> THEN acc
    ELSE MaxOverSteps(Tail(steps), en, RMaxOf({acc} \cup FI_step_en(Head(steps)[en])))

\* the maximum with the first criterion of each step read only
FIStepMax_FirstCriterion(c, r) ==
    [en \in ElementsOf(c.domains_from_config) |->
        IF c.domain_FI_filled
        THEN RMaxOf({<<0, 1>>} \cup UNION {FI_step_en(SubSeq(r.FI[sn][en], 1, 1)) : sn \in 1..Len(r.FI)})
        ELSE <<0, 1>>]

FIStepMax(c, r) ==
    [en \in ElementsOf(c.domains_from_config) |->
        IF c.domain_FI_filled THEN MaxOverSteps(r.FI, en, <<0, 1>>) ELSE <<0, 1>>]

\* the energy density of the last step taken for the largest
EnergyMax_LastStep(r, en) == r.energy[Len(r.energy)][en]

\* max(energy_density_enlist[en]): the largest energy density of en over the steps
EnergyMax(r, en) ==
    LET vals == {r.energy[sn][en] : sn \in 1..Len(r.energy)} IN
    CHOOSE x \in vals : \A y \in vals : y <= x

ViolatedCounts(c, fsm) ==
    [k \in 1..Len(c.domains_from_config) |->
        IF c.domain_FI_filled
        THEN Cardinality({en \in domains[c.domains_from_config[k]] : RLe(<<1, 1>>, fsm[en])})
        ELSE 0]

\* the sensitivity number of every element of the configured domains; the
\* energy value stands for the quantity the objective reads (energy density
\* per step, heat flux, eigen energy density)
SensitivityOf(c, r, es) ==
    [en \in ElementsOf(c.domains_from_config) |->
        [v |-> CASE c.optimization_base = "stiffness" -> RInt(EnergyMax(r, en))
                 [] c.optimization_base = "heat" ->
                      IF en \in volume_elements THEN Rat(r.energy[1][en], volume_elm[en])
                      ELSE Rat(r.energy[1][en],
                               area_elm[en] * PyIndex(domain_thickness[DomainOf(en)], es[en]))
                 [] c.optimization_base = "failure_index" ->
                      RDiv(FIStepMax(c, r)[en], RInt(PyIndex(domain_density[DomainOf(en)], es[en])))
                 [] OTHER -> Rat(r.energy[1][en], 2),
         by |-> <<>>]]

\* the failure of max() over no value, taken for a domain without criteria only
FIMaxFails_WholeDomain(c, r) ==
    /\ c.domain_FI_filled
    /\ \E k \in 1..Len(c.domains_from_config) : domains[c.domains_from_config[k]] \subseteq r.unusable

\* the ValueError of max() over the failure indices of an element that are all None
FIMaxFails(c, r) == c.domain_FI_filled /\ r.unusable # {}

\* FI_max and handling with more steps: an element all of whose failure
\* criteria are None ends the run with the exception raised after the log write
Sensitivity ==
    /\ pc = "sensitivity"
    /\ IF FIMaxFails(conf, results)
       THEN /\ log' = log \cup {"ERROR: FI_max computing failed"}
            /\ Raise("Exception")
            /\ UNCHANGED <<FI_step_max, FI_violated, sensitivity_number>>
       ELSE /\ FI_step_max' = FIStepMax(conf, results)
            /\ FI_violated' = Append(FI_violated, ViolatedCounts(conf, FIStepMax(conf, results)))
            /\ sensitivity_number' = SensitivityOf(conf, results, elm_states)
            /\ pc' = "filter_sensitivity"
            /\ UNCHANGED <<log, exception>>
    /\ Stage("sensitivity", i)
    /\ UNCHANGED <<files, removed, prepared, sensitivity_number_old, applied, switched, iterations_limit, conf, calculix,
                   i, file_nameW, i_violated, continue_iterations,
                   check_tolerance, mass_excess, oscillations, elm_states, elm_states_last,
                   elm_states_before_last, aliased, mass, mass_goal_i, exit_status, results,
                   FI_mean, energy_density_mean, exported, pass_start,
                   elm_states_history>>

\* domains_to_filter of entry ft in the sensitivity stage
SensitivityTargets(c, ft) ==
    IF ft.kind = <<"casting">>
    THEN IF Len(ft.targets) = 1 THEN opt_domains(c.domains_from_config)
         ELSE ElementsNamed(Tail(ft.targets))
    ELSE domains_to_filter(c, ft)

\* what entry ft of filter_list does in the sensitivity stage: "skip", "bad"
\* (the IndexError of ft[0].split()[1] on a one-word kind) or "run"
SensitivityFilterKind(ft) ==
    IF ~FilterActive(ft) THEN "skip"
    ELSE IF ft.kind \in {<<"casting">>, <<"over", "points">>, <<"over", "nodes">>, <<"simple">>}
    THEN "run"
    ELSE IF ft.kind[1] \notin MorphologyOps THEN "skip"
    ELSE IF Len(ft.kind) < 2 THEN "bad"
    ELSE IF ft.kind[2] = "sensitivity" THEN "run"
    ELSE "skip"

\* the elements the filter call of entry k works on: the ones handed to the
\* call, or for "over points" the ones its prepared structures hold
AppliedTo(c, k, prep) ==
    LET ft == c.filter_list[k] IN
    IF ft.kind = <<"over", "points">> THEN prep[k].elements
    ELSE SensitivityTargets(c, ft)

\* the filter loop from entry k on: st is [sn, applied, exc]; a filter call
\* marks the value of every element it works on with its entry number
RECURSIVE FilterSensitivityFrom(_, _, _, _)
FilterSensitivityFrom(c, k, prep, st) ==
    IF k > Len(c.filter_list) \/ st.exc # "" THEN st
    ELSE LET kind == SensitivityFilterKind(c.filter_list[k]) IN
         IF kind = "bad" THEN [st EXCEPT !.exc = "IndexError"]
         ELSE IF kind = "skip"
         THEN FilterSensitivityFrom(c, k + 1, prep,
                  [st EXCEPT !.applied = Append(st.applied, [ran |-> FALSE, elements |-> {}])])
         ELSE LET ens == AppliedTo(c, k, prep) IN
              FilterSensitivityFrom(c, k + 1, prep,
                  [st EXCEPT !.applied = Append(st.applied, [ran |-> TRUE, elements |-> ens]),
                             !.sn = [en \in DOMAIN st.sn |->
                                        IF en \in ens
                                        THEN [st.sn[en] EXCEPT !.by = Append(st.sn[en].by, k)]
                                        ELSE st.sn[en]]])

\* the sum with the last iteration taken for the mean
Averaged_Unhalved(c, k, sn, old) ==
    [en \in DOMAIN sn |->
        IF c.sensitivity_averaging /\ en \in opt_domains(c.domains_from_config) /\ k > 0
        THEN [v |-> RAdd(sn[en].v, old[en].v), by |-> Append(sn[en].by, 0)]
        ELSE sn[en]]

\* sensitivity averaging with the last iteration, over the optimized elements
Averaged(c, k, sn, old) ==
    [en \in DOMAIN sn |->
        IF c.sensitivity_averaging /\ en \in opt_domains(c.domains_from_config) /\ k > 0
        THEN [v |-> RMul(RAdd(sn[en].v, old[en].v), <<1, 2>>), by |-> Append(sn[en].by, 0)]
        ELSE sn[en]]

\* filtering sensitivity number
FilterSensitivity ==
    /\ pc = "filter_sensitivity"
    /\ LET out == FilterSensitivityFrom(conf, 1, prepared,
                       [sn |-> sensitivity_number, applied |-> <<>>, exc |-> ""]) IN
          /\ applied' = [applied EXCEPT !.sensitivity = out.applied]
          /\ IF out.exc # ""
             THEN /\ Raise(out.exc)
                  /\ sensitivity_number' = out.sn
                  /\ UNCHANGED sensitivity_number_old
             ELSE /\ sensitivity_number' = Averaged(conf, i, out.sn, sensitivity_number_old)
                  /\ sensitivity_number_old' =
                        IF conf.sensitivity_averaging
                        THEN [en \in DOMAIN sensitivity_number_old |->
                                 IF en \in opt_domains(conf.domains_from_config)
                                 THEN Averaged(conf, i, out.sn, sensitivity_number_old)[en]
                                 ELSE sensitivity_number_old[en]]
                        ELSE sensitivity_number_old
                  /\ pc' = "mean_values"
                  /\ UNCHANGED exception
    /\ Stage("filter_sensitivity", i)
    /\ UNCHANGED <<files, removed, prepared, switched, iterations_limit, conf, calculix, i, file_nameW, i_violated,
                   continue_iterations,
                   check_tolerance, mass_excess, oscillations, elm_states, elm_states_last,
                   elm_states_before_last, aliased, mass, mass_goal_i, exit_status, results,
                   FI_step_max, FI_violated, FI_mean, energy_density_mean, log, exported,
                   pass_start,
                   elm_states_history>>

\* computing mean stress from maximums of each element: the mass-weighted sum
\* over the optimized elements, divided by mass[i]
WeightedSum(c, es, val) ==
    RSumOver(opt_domains(c.domains_from_config),
             [en \in opt_domains(c.domains_from_config) |->
                 RMul(val[en], RInt(ElementMass(en, es[en])))])

MeanValues ==
    /\ pc = "mean_values"
    /\ IF (conf.domain_FI_filled \/ conf.optimization_base \in {"stiffness", "heat"})
          /\ mass[i + 1] = 0
       THEN /\ Raise("ZeroDivisionError")
            /\ UNCHANGED <<FI_mean, energy_density_mean>>
       ELSE /\ FI_mean' = IF conf.domain_FI_filled
                          THEN Append(FI_mean, RMul(WeightedSum(conf, elm_states, FI_step_max), <<1, mass[i + 1]>>))
                          ELSE FI_mean
            /\ energy_density_mean' =
                  IF conf.optimization_base = "stiffness"
                  THEN Append(energy_density_mean,
                              RMul(WeightedSum(conf, elm_states,
                                               [en \in Elems |-> RInt(EnergyMax(results, en))]),
                                   <<1, mass[i + 1]>>))
                  ELSE energy_density_mean
            /\ pc' = "export_values"
            /\ UNCHANGED exception
    /\ Stage("mean_values", i)
    /\ UNCHANGED <<files, removed, prepared, sensitivity_number, sensitivity_number_old, applied, switched, iterations_limit, conf, calculix, i, file_nameW, i_violated, continue_iterations,
                   check_tolerance, mass_excess, oscillations, elm_states, elm_states_last,
                   elm_states_before_last, aliased, mass, mass_goal_i, exit_status, results,
                   FI_step_max, FI_violated, log, exported, pass_start,
                   elm_states_history>>

\* the export of the states the pass was solved with
Exports_SolvedStates(fmts, stem, k, es, at) ==
    {[format |-> f, stem |-> stem, iteration |-> k, states |-> pass_start.elm_states, at |-> at] :
        f \in fmts \cap conf.save_resulting_format}

\* the files one export call writes: one per configured format among fmts
Exports(fmts, stem, k, es, at) ==
    {[format |-> f, stem |-> stem, iteration |-> k, states |-> es, at |-> at] :
        f \in fmts \cap conf.save_resulting_format}

\* export element values
ExportValues ==
    /\ pc = "export_values"
    /\ exported' = IF OnCadence(conf.save_iteration_results, i)
                   THEN exported \cup Exports({"csv", "vtk"}, file_nameW, i, elm_states, "loop")
                   ELSE exported
    /\ Stage("export_values", i)
    /\ pc' = "convergence"
    /\ UNCHANGED <<files, removed, prepared, sensitivity_number, sensitivity_number_old, applied, switched, iterations_limit, conf, calculix, exception, i, file_nameW, i_violated, continue_iterations,
                   check_tolerance, mass_excess, oscillations, elm_states, elm_states_last,
                   elm_states_before_last, aliased, mass, mass_goal_i, exit_status, results,
                   FI_step_max, FI_violated, FI_mean, energy_density_mean, log, pass_start,
                   elm_states_history>>

\* how many values the mean must hold before the check runs: len(v) > 5
MinRecorded == 6
\* range(1, 6): the earlier iterations the last value is compared with
LastRange == 1..5

\* difference: the largest relative change of v[k] against the LastRange values before it
MaxDifference(v, k) ==
    RMaxOf({RDiv(RAbs(RSub(v[k + 1], v[k + 1 - last])), v[k + 1]) : last \in LastRange})

\* the test with the stall branch comparing the last two values only
MeanConverged_StallOfTwo(v, k, tol) ==
    IF Len(v) >= MinRecorded
    THEN IF RLt(MaxDifference(v, k), tol) THEN TRUE
         ELSE REq(v[k + 1], v[k])
    ELSE FALSE

\* the test with the stall branch outside the guard on the recorded values
MeanConverged_StallAnytime(v, k, tol) ==
    IF Len(v) >= MinRecorded
    THEN IF RLt(MaxDifference(v, k), tol) THEN TRUE
         ELSE REq(v[k + 1], v[k]) /\ REq(v[k], v[k - 1])
    ELSE k >= 2 /\ Len(v) = k + 1 /\ REq(v[k + 1], v[k]) /\ REq(v[k], v[k - 1])

\* the test made only once check_tolerance is set
MeanConverged_OnceTolerant(v, k, tol) ==
    IF Len(v) >= MinRecorded /\ check_tolerance
    THEN IF RLt(MaxDifference(v, k), tol) THEN TRUE
         ELSE REq(v[k + 1], v[k]) /\ REq(v[k], v[k - 1])
    ELSE FALSE

\* whether one tracked mean ends the iterations at index k
MeanConverged(v, k, tol) ==
    IF Len(v) >= MinRecorded
    THEN IF RLt(MaxDifference(v, k), tol) THEN TRUE
         ELSE REq(v[k + 1], v[k]) /\ REq(v[k], v[k - 1])
    ELSE FALSE

\* relative difference in a mean stress, then in a mean energy density,
\* for the last 5 iterations must be < tolerance
ConvergenceCheck ==
    /\ pc = "convergence"
    /\ IF (Len(FI_mean) >= MinRecorded /\ FI_mean[i + 1][1] = 0)
          \/ (Len(energy_density_mean) >= MinRecorded /\ energy_density_mean[i + 1][1] = 0)
       THEN /\ Raise("ZeroDivisionError")
            /\ UNCHANGED continue_iterations
       ELSE /\ continue_iterations' =
                  IF MeanConverged(FI_mean, i, conf.tolerance)
                     \/ MeanConverged(energy_density_mean, i, conf.tolerance)
                  THEN FALSE ELSE continue_iterations
            /\ pc' = "finish"
            /\ UNCHANGED exception
    /\ Stage("convergence", i)
    /\ UNCHANGED <<files, removed, prepared, sensitivity_number, sensitivity_number_old, applied, switched, iterations_limit, conf, calculix, i, file_nameW, i_violated, check_tolerance, mass_excess,
                   oscillations, elm_states, elm_states_last, elm_states_before_last, aliased,
                   mass, mass_goal_i, exit_status, results, FI_step_max, FI_violated, FI_mean,
                   energy_density_mean, log, exported, pass_start,
                   elm_states_history>>

\* the break condition with the limit compared strictly
Finish_PastLimit(ci, k, limit) == ci = FALSE \/ k > limit

\* finish or start new iteration: the break condition
Finish(ci, k, limit) == ci = FALSE \/ k >= limit

FinishOrContinue ==
    /\ pc = "finish"
    /\ IF continue_iterations /\ iterations_limit.auto
       THEN /\ Raise("TypeError")
            /\ UNCHANGED <<i, exported>>
       ELSE IF Finish(continue_iterations, i, iterations_limit.n)
       THEN /\ exported' = IF ~OnCadence(conf.save_iteration_results, i)
                           THEN exported \cup Exports({"csv", "vtk"}, file_nameW, i, elm_states, "final")
                           ELSE exported
            /\ pc' = "final_mesh_export"
            /\ UNCHANGED <<i, exception>>
       ELSE /\ i' = i + 1
            /\ pc' = "mass_goal"
            /\ UNCHANGED <<exported, exception>>
    /\ Stage("finish", i)
    /\ UNCHANGED <<files, removed, prepared, sensitivity_number, sensitivity_number_old, applied, switched, iterations_limit, conf, calculix, file_nameW, i_violated, continue_iterations,
                   check_tolerance, mass_excess, oscillations, elm_states, elm_states_last,
                   elm_states_before_last, aliased, mass, mass_goal_i, exit_status, results,
                   FI_step_max, FI_violated, FI_mean, energy_density_mean, log, pass_start,
                   elm_states_history>>

\* ------------------------------------------------------------ the loop pass, after i += 1
\* mass_goal_ratio * mass_full
GoalMass(c) == RMul(c.mass_goal_ratio, RInt(MassFull(c.domains_from_config)))
NetRemoving(c) == RLt(c.mass_addition_ratio, c.mass_removal_ratio)
\* sum(FI_violated[k - 1]) > sum(FI_violated[0]) + FI_violated_tolerance
Violated(c, fv, k) == SeqSum(fv[k]) > SeqSum(fv[1]) + c.FI_violated_tolerance

\* the goal with the mass of the previous iteration taken whenever it is above the goal mass
NextMassGoal_FromPrevious(c, fv, m, k, g) ==
    LET prev == RInt(m[k]) IN
    IF NetRemoving(c)
    THEN IF RLe(prev, GoalMass(c)) /\ ~Violated(c, fv, k) THEN g
         ELSE IF RLe(GoalMass(c), prev) THEN [set |-> TRUE, v |-> prev]
         ELSE [set |-> TRUE, v |-> GoalMass(c)]
    ELSE IF RLt(prev, GoalMass(c))
         THEN [set |-> TRUE,
               v |-> RAdd(prev, RMul(RSub(c.mass_addition_ratio, c.mass_removal_ratio),
                                     RInt(MassFull(c.domains_from_config))))]
         ELSE [set |-> TRUE, v |-> GoalMass(c)]

\* the goal with the violation branch aiming at the goal mass as the branch without violation does
NextMassGoal_ViolationIgnored(c, fv, m, k, g) ==
    LET prev == RInt(m[k]) IN
    IF NetRemoving(c)
    THEN IF Violated(c, fv, k) THEN [set |-> TRUE, v |-> GoalMass(c)]
         ELSE IF RLe(prev, GoalMass(c)) THEN g
         ELSE [set |-> TRUE, v |-> GoalMass(c)]
    ELSE IF RLt(prev, GoalMass(c))
         THEN [set |-> TRUE,
               v |-> RAdd(prev, RMul(RSub(c.mass_addition_ratio, c.mass_removal_ratio),
                                     RInt(MassFull(c.domains_from_config))))]
         ELSE [set |-> TRUE, v |-> GoalMass(c)]

\* mass_goal_i after the statement, from its value g before it
NextMassGoal(c, fv, m, k, g) ==
    LET prev == RInt(m[k]) IN
    IF NetRemoving(c)
    THEN IF Violated(c, fv, k)
         THEN IF RLe(GoalMass(c), prev) THEN [set |-> TRUE, v |-> prev]
              ELSE [set |-> TRUE, v |-> GoalMass(c)]
         ELSE IF RLe(prev, GoalMass(c)) THEN g
         ELSE [set |-> TRUE, v |-> GoalMass(c)]
    ELSE IF RLt(prev, GoalMass(c))
         THEN [set |-> TRUE,
               v |-> RAdd(prev, RMul(RSub(c.mass_addition_ratio, c.mass_removal_ratio),
                                     RInt(MassFull(c.domains_from_config))))]
         ELSE [set |-> TRUE, v |-> GoalMass(c)]

\* whether this pass starts the decay: violation, or goal mass achieved
StartsDecay(c, fv, m, k) ==
    IF NetRemoving(c)
    THEN Violated(c, fv, k) \/ RLe(RInt(m[k]), GoalMass(c))
    ELSE ~RLt(RInt(m[k]), GoalMass(c))

\* set mass_goal for i-th iteration, check for number of violated elements
SetMassGoal ==
    /\ pc = "mass_goal"
    /\ mass_goal_i' = NextMassGoal(conf, FI_violated, mass, i, mass_goal_i)
    /\ IF StartsDecay(conf, FI_violated, mass, i) /\ i_violated = 0
       THEN i_violated' = i /\ check_tolerance' = TRUE
       ELSE UNCHANGED <<i_violated, check_tolerance>>
    /\ log' = IF NetRemoving(conf) /\ ~Violated(conf, FI_violated, i)
                 /\ RLe(RInt(mass[i]), GoalMass(conf)) /\ ~mass_goal_i.set
              THEN log \cup {"WARNING: mass goal is lower than initial mass"}
              ELSE log
    /\ Stage("mass_goal", i - 1)
    /\ pc' = "switching"
    /\ UNCHANGED <<files, removed, prepared, sensitivity_number, sensitivity_number_old, applied, switched, iterations_limit, conf, calculix, exception, i, file_nameW, continue_iterations, mass_excess,
                   oscillations, elm_states, elm_states_last, elm_states_before_last, aliased,
                   mass, exit_status, results, FI_step_max, FI_violated, FI_mean,
                   energy_density_mean, exported, pass_start,
                   elm_states_history>>

\* beso_lib.switching: every element of an optimized domain keeps its state or
\* moves one state down (not below void) or up (not above the highest state)
SwitchedStates(c, es) ==
    {ns \in [DOMAIN es -> (-1)..2] :
        \A en \in DOMAIN es :
           \/ ns[en] = es[en]
           \/ /\ en \in opt_domains(c.domains_from_config)
              /\ ns[en] \in {es[en] - 1, es[en] + 1}
              /\ ns[en] >= 0
              /\ ns[en] <= HighestState(DomainOf(en))}

\* switch element states: the call reads mass_goal_i, unbound until a goal was
\* set; the engine mutates the map it is given, so that elm_states_last
\* follows while it is the same object
Switching ==
    /\ pc = "switching"
    /\ IF ~mass_goal_i.set
       THEN /\ Raise("NameError")
            /\ UNCHANGED <<elm_states, elm_states_last, mass, switched>>
       ELSE /\ \E ns \in SwitchedStates(conf, elm_states) :
                 /\ elm_states' = ns
                 /\ elm_states_last' = IF aliased THEN ns ELSE elm_states_last
                 /\ mass' = Append(mass, MassOf(conf.domains_from_config, ns))
                 /\ switched' = [mass_excess |-> mass_excess, elm_states |-> ns,
                                 mass |-> MassOf(conf.domains_from_config, ns)]
            /\ pc' = "filter_state"
            /\ UNCHANGED exception
    /\ Stage("switching", i - 1)
    /\ UNCHANGED <<files, removed, prepared, sensitivity_number, sensitivity_number_old, applied, iterations_limit, conf, calculix, i, file_nameW, i_violated, continue_iterations,
                   check_tolerance, mass_excess, oscillations, elm_states_before_last, aliased,
                   mass_goal_i, exit_status, results, FI_step_max, FI_violated, FI_mean,
                   energy_density_mean, log, exported, pass_start,
                   elm_states_history>>

\* ------------------------------------------------------------ filtering state

\* beso_filters.run_morphology on states: a new map in which a targeted
\* element takes the state of some element (itself, or one in range of it)
MorphologyResults(es, targets) ==
    {[en \in DOMAIN es |-> IF en \in targets THEN new[en] ELSE es[en]] :
        new \in [targets \cap DOMAIN es -> {es[from] : from \in DOMAIN es}]}

\* the elements in the order the mass correction visits them: per configured
\* optimized domain, its shells and then its volumes
RECURSIVE SetToSeq(_)
SetToSeq(S) == IF S = {} THEN <<>>
               ELSE LET x == CHOOSE y \in S : \A z \in S : y <= z
                    IN <<x>> \o SetToSeq(S \ {x})

RECURSIVE CorrectionOrder(_, _)
CorrectionOrder(dfc, k) ==
    IF k > Len(dfc) THEN <<>>
    ELSE (IF domain_optimized[dfc[k]]
          THEN SetToSeq(domain_shells(dfc[k])) \o SetToSeq(domain_volumes(dfc[k]))
          ELSE <<>>) \o CorrectionOrder(dfc, k + 1)

\* the mass delta with the shell thickness of the old state kept
MassDelta_OldThickness(en, old, new) ==
    IF en \in shell_elements
    THEN area_elm[en] * PyIndex(domain_thickness[DomainOf(en)], old)
            * (PyIndex(domain_density[DomainOf(en)], new) - PyIndex(domain_density[DomainOf(en)], old))
    ELSE ElementMass(en, new) - ElementMass(en, old)

\* the mass delta of moving element en from state old to state new
MassDelta(en, old, new) == ElementMass(en, new) - ElementMass(en, old)

\* whether density (and thickness) of state s can be read for element en
StateReadable(en, s) ==
    /\ PyInRange(domain_density[DomainOf(en)], s)
    /\ en \in shell_elements => PyInRange(domain_thickness[DomainOf(en)], s)

\* compute mass difference: st is [es, m, exc], m the ledger entry mass[i]
RECURSIVE CorrectMass(_, _, _)
CorrectMass(order, filtered, st) ==
    IF order = <<>> \/ st.exc # "" THEN st
    ELSE LET en == Head(order) IN
         IF st.es[en] = filtered[en] THEN CorrectMass(Tail(order), filtered, st)
         ELSE IF ~StateReadable(en, filtered[en])
         THEN [st EXCEPT !.exc = "IndexError"]
         ELSE CorrectMass(Tail(order), filtered,
                          [st EXCEPT !.m = st.m + MassDelta(en, st.es[en], filtered[en]),
                                     !.es = [st.es EXCEPT ![en] = filtered[en]]])

\* whether entry ft runs a morphology filter on the element states; "bad"
\* stands for the IndexError of ft[0].split()[1] on a one-word kind
\* the state filter loop with the second word of the filter name left unread
StateFilterKind_AnyMorphology(ft) ==
    IF ~FilterActive(ft) \/ ft.kind = <<"casting">> THEN "skip"
    ELSE IF ft.kind[1] \notin MorphologyOps THEN "skip"
    ELSE IF Len(ft.kind) < 2 THEN "bad"
    ELSE "state"

StateFilterKind(ft) ==
    IF ~FilterActive(ft) \/ ft.kind = <<"casting">> THEN "skip"
    ELSE IF ft.kind[1] \notin MorphologyOps THEN "skip"
    ELSE IF Len(ft.kind) < 2 THEN "bad"
    ELSE IF ft.kind[2] = "state" THEN "state"
    ELSE "skip"

\* the outcomes of the filter loop from entry k on
RECURSIVE StateFilterOutcomes(_, _, _)
StateFilterOutcomes(c, k, st) ==
    IF k > Len(c.filter_list) \/ st.exc # "" THEN {st}
    ELSE LET ft == c.filter_list[k] IN
         CASE StateFilterKind(ft) = "skip" ->
                StateFilterOutcomes(c, k + 1,
                    [st EXCEPT !.applied = Append(st.applied, [ran |-> FALSE, elements |-> {}])])
           [] StateFilterKind(ft) = "bad" -> {[st EXCEPT !.exc = "IndexError"]}
           [] OTHER ->
                UNION {StateFilterOutcomes(c, k + 1,
                           CorrectMass(CorrectionOrder(c.domains_from_config, 1), filtered,
                               [st EXCEPT !.applied = Append(st.applied,
                                             [ran |-> TRUE, elements |-> domains_to_filter(c, ft)])])) :
                       filtered \in MorphologyResults(st.es, domains_to_filter(c, ft))}

\* the excess with mass_not_filtered read after the filter loop
MassExcess_ReadAfterFilter(m, k, mass_not_filtered) == m[k + 1] - m[k + 1]

\* mass_excess = mass[i] - mass_not_filtered
MassExcess(m, k, mass_not_filtered) == m[k + 1] - mass_not_filtered

FilterState ==
    /\ pc = "filter_state"
    /\ \E out \in StateFilterOutcomes(conf, 1, [es |-> elm_states, m |-> mass[i + 1], exc |-> "",
                                                  applied |-> <<>>]) :
          /\ elm_states' = out.es
          /\ applied' = [applied EXCEPT !.state = out.applied]
          /\ elm_states_last' = IF aliased THEN out.es ELSE elm_states_last
          /\ mass' = [mass EXCEPT ![i + 1] = out.m]
          /\ IF out.exc # ""
             THEN Raise(out.exc) /\ UNCHANGED mass_excess
             ELSE /\ mass_excess' = MassExcess(mass', i, mass[i + 1])
                  /\ pc' = "export_mesh"
                  /\ UNCHANGED exception
    /\ Stage("filter_state", i - 1)
    /\ UNCHANGED <<files, removed, prepared, sensitivity_number, sensitivity_number_old, switched, iterations_limit, conf, calculix, i, file_nameW, i_violated, continue_iterations,
                   check_tolerance, oscillations, elm_states_before_last, aliased, mass_goal_i,
                   exit_status, results, FI_step_max, FI_violated, FI_mean, energy_density_mean,
                   log, exported, pass_start,
                   elm_states_history>>

\* ------------------------------------------------------------ the end of the pass
\* export the present mesh: frd and inp under the stem of the new iteration
ExportMesh ==
    /\ pc = "export_mesh"
    /\ exported' = IF OnCadence(conf.save_iteration_results, i)
                   THEN exported \cup Exports({"frd", "inp"}, i, i, elm_states, "loop")
                   ELSE exported
    /\ Stage("export_mesh", i - 1)
    /\ pc' = "oscillation"
    /\ UNCHANGED <<files, removed, prepared, sensitivity_number, sensitivity_number_old, applied, switched, iterations_limit, conf, calculix, exception, i, file_nameW, i_violated, continue_iterations,
                   check_tolerance, mass_excess, oscillations, elm_states, elm_states_last,
                   elm_states_before_last, aliased, mass, mass_goal_i, exit_status, results,
                   FI_step_max, FI_violated, FI_mean, energy_density_mean, log, pass_start,
                   elm_states_history>>

\* elm_states_before_last == elm_states, the empty dict equal to no assignment but the empty one
Oscillating(before_last, es) ==
    IF before_last.set THEN before_last.v = es ELSE DOMAIN es = {}

\* check for oscillation state
OscillationCheck ==
    /\ pc = "oscillation"
    /\ IF Oscillating(elm_states_before_last, elm_states)
       THEN /\ oscillations' = TRUE
            /\ log' = log \cup {"OSCILLATION"}
            /\ pc' = "final_mesh_export"
            /\ UNCHANGED <<elm_states_before_last, elm_states_last, aliased>>
       ELSE /\ elm_states_before_last' = [set |-> TRUE, v |-> elm_states_last]
            /\ elm_states_last' = elm_states
            /\ aliased' = FALSE
            /\ pc' = "remove_solver_files"
            /\ UNCHANGED <<oscillations, log>>
    /\ elm_states_history' = Append(elm_states_history, elm_states)
    /\ Stage("oscillation", i - 1)
    /\ UNCHANGED <<files, removed, prepared, sensitivity_number, sensitivity_number_old, applied, switched, iterations_limit, conf, calculix, exception, i, file_nameW, i_violated, continue_iterations,
                   check_tolerance, mass_excess, elm_states, mass, mass_goal_i, exit_status,
                   results, FI_step_max, FI_violated, FI_mean, energy_density_mean, exported,
                   pass_start>>

\* the kinds of solver file in the order the removal visits them
SolverFileKinds == <<"inp", "dat", "frd", "sta", "cvg", "12d">>

\* os.remove of the listed kinds of stem, in order: a missing file ends the
\* removal with FileNotFoundError, except the .12d file, whose absence is passed over
\* the removal under the file name of the pass before
RECURSIVE RemoveInOrder_StemBefore(_, _, _)
RemoveInOrder_StemBefore(kinds, stem, st) ==
    IF kinds = <<>> \/ st.exc # "" THEN st
    ELSE LET f == <<IF stem > 0 THEN stem - 1 ELSE stem, Head(kinds)>> IN
         IF f \in st.files
         THEN RemoveInOrder_StemBefore(Tail(kinds), stem, [st EXCEPT !.files = st.files \ {f}])
         ELSE IF Head(kinds) = "12d" THEN RemoveInOrder_StemBefore(Tail(kinds), stem, st)
         ELSE [st EXCEPT !.exc = "FileNotFoundError"]

RECURSIVE RemoveInOrder(_, _, _)
RemoveInOrder(kinds, stem, st) ==
    IF kinds = <<>> \/ st.exc # "" THEN st
    ELSE LET f == <<stem, Head(kinds)>> IN
         IF f \in st.files
         THEN RemoveInOrder(Tail(kinds), stem, [st EXCEPT !.files = st.files \ {f}])
         ELSE IF Head(kinds) = "12d" THEN RemoveInOrder(Tail(kinds), stem, st)
         ELSE [st EXCEPT !.exc = "FileNotFoundError"]

\* the kinds the in-loop removal takes away after pass k: those not listed in
\* save_solver_files when k is on the export cadence, all of them otherwise
ToRemove(c, k) ==
    IF OnCadence(c.save_iteration_results, k)
    THEN SelectSeq(SolverFileKinds, LAMBDA kind : kind \notin c.save_solver_files)
    ELSE SolverFileKinds

\* the kinds the final cleanup takes away
ToRemoveFinally(c) == SelectSeq(SolverFileKinds, LAMBDA kind : kind \notin c.save_solver_files)

\* removing solver files, then the next pass
RemoveSolverFiles ==
    /\ pc = "remove_solver_files"
    /\ LET out == RemoveInOrder(ToRemove(conf, i - 1), file_nameW, [files |-> files, exc |-> ""]) IN
          /\ files' = out.files
          /\ removed' = removed \cup (files \ out.files)
          /\ IF out.exc # "" THEN Raise(out.exc)
             ELSE pc' = "write_inp" /\ UNCHANGED exception
    /\ Stage("remove_solver_files", i - 1)
    /\ UNCHANGED <<prepared, sensitivity_number, sensitivity_number_old, applied, switched, iterations_limit, conf, calculix, i, file_nameW, i_violated, continue_iterations,
                   check_tolerance, mass_excess, oscillations, elm_states, elm_states_last,
                   elm_states_before_last, aliased, mass, mass_goal_i, exit_status, results,
                   FI_step_max, FI_violated, FI_mean, energy_density_mean, log, exported,
                   pass_start,
                   elm_states_history>>

\* export the resulting mesh, after the loop
FinalMeshExport ==
    /\ pc = "final_mesh_export"
    /\ exported' = IF ~OnCadence(conf.save_iteration_results, i)
                   THEN exported \cup Exports({"frd", "inp"}, file_nameW, i, elm_states, "final")
                   ELSE exported
    /\ pc' = "final_cleanup"
    /\ UNCHANGED <<files, removed, prepared, sensitivity_number, sensitivity_number_old, applied, switched, iterations_limit, conf, calculix, exception, i, file_nameW, i_violated, continue_iterations,
                   check_tolerance, mass_excess, oscillations, elm_states, elm_states_last,
                   elm_states_before_last, aliased, mass, mass_goal_i, exit_status, results,
                   FI_step_max, FI_violated, FI_mean, energy_density_mean, log, ran, pass_start,
                   elm_states_history>>

\* removing solver files, final cleanup; the run ends
FinalCleanup ==
    /\ pc = "final_cleanup"
    /\ LET out == RemoveInOrder(ToRemoveFinally(conf), file_nameW, [files |-> files, exc |-> ""]) IN
          /\ files' = out.files
          /\ removed' = removed \cup (files \ out.files)
          /\ IF out.exc # "" THEN Raise(out.exc)
             ELSE pc' = "done" /\ UNCHANGED exception
    /\ UNCHANGED <<prepared, sensitivity_number, sensitivity_number_old, applied, switched, iterations_limit, conf, calculix, i, file_nameW, i_violated, continue_iterations,
                   check_tolerance, mass_excess, oscillations, elm_states, elm_states_last,
                   elm_states_before_last, aliased, mass, mass_goal_i, exit_status, results,
                   FI_step_max, FI_violated, FI_mean, energy_density_mean, log, exported, ran,
                   pass_start,
                   elm_states_history>>

Next ==
    \/ AutoLimit
    \/ PrepareFilters
    \/ WriteInp
    \/ RunCalculiX
    \/ ImportResults
    \/ CheckResults
    \/ Sensitivity
    \/ FilterSensitivity
    \/ MeanValues
    \/ ExportValues
    \/ ConvergenceCheck
    \/ FinishOrContinue
    \/ SetMassGoal
    \/ Switching
    \/ FilterState
    \/ ExportMesh
    \/ OscillationCheck
    \/ RemoveSolverFiles
    \/ FinalMeshExport
    \/ FinalCleanup

\* ------------------------------------------------------------ the run parameters drawn
NoFilter == [kind |-> <<"None">>, range |-> 0, auto |-> FALSE, targets |-> <<>>]
ErodeState == [kind |-> <<"erode", "state">>, range |-> 1, auto |-> FALSE, targets |-> <<>>]
DilateStateSolid == [kind |-> <<"dilate", "state">>, range |-> 1, auto |-> FALSE, targets |-> <<"solid">>]
SimpleFilter == [kind |-> <<"simple">>, range |-> 1, auto |-> FALSE, targets |-> <<>>]

Default == [kind |-> "default", v |-> 0]
FromState(n) == [kind |-> "int", v |-> n]

BaseConf ==
    [domains_from_config |-> <<"shell">>,
     continue_from |-> Default,
     iterations_limit |-> 0,
     iterations_limit_auto |-> FALSE,
     ratio_type |-> "relative",
     save_iteration_results |-> 1,
     save_resulting_format |-> {"inp", "vtk"},
     save_solver_files |-> {},
     sensitivity_averaging |-> FALSE,
     optimization_base |-> "stiffness",
     domain_FI_filled |-> FALSE,
     FI_violated_tolerance |-> 1,
     mass_goal_ratio |-> <<2, 5>>,
     mass_addition_ratio |-> <<3, 200>>,
     mass_removal_ratio |-> <<3, 100>>,
     tolerance |-> <<1, 1000>>,
     filter_list |-> <<SimpleFilter>>]

AllStatuses == {0, 1, 201, 2}
\* the files a solver run leaves next to its input file
SolverOutput == {"dat", "frd", "sta", "cvg"}
\* a solver that succeeds; its files hold every quantity, or miss the one the
\* objective of these runs needs
Solved == [status |-> {0}, files |-> {ResultKinds, ResultKinds \ {"buckling"}},
           energy |-> EnergyValues, FI |-> FIValues, artifacts |-> {SolverOutput}, unusable |-> {{}},
     steps |-> {1}, criteria |-> {<<TRUE>>}]

\* the control flow of short runs: every objective, export cadence and format set
\* the objective and whether failure criteria are configured
Objectives == {<<"stiffness", FALSE>>, <<"stiffness", TRUE>>, <<"heat", FALSE>>,
               <<"buckling", FALSE>>, <<"failure_index", TRUE>>}

\* solver and result errors: every objective, any exit status in any pass
ErrorConfs ==
    {[BaseConf EXCEPT !.iterations_limit = lim, !.optimization_base = ob[1],
                      !.domain_FI_filled = ob[2]]:
        lim \in 0..MaxLimit, ob \in Objectives}

Init == InitWith(ErrorConfs, {[status |-> AllStatuses, files |-> PresentChoices,
                                 energy |-> EnergyValues, FI |-> FIValues,
                                 artifacts |-> {SolverOutput}, unusable |-> {{}},
     steps |-> {1}, criteria |-> {<<TRUE>>}]})
Spec == Init /\ [][Next]_vars

\* termination and exports: every limit, export cadence and format set
ExportConfs ==
    {[BaseConf EXCEPT !.iterations_limit = lim, !.save_iteration_results = sir,
                      !.save_resulting_format = fmt, !.optimization_base = "buckling"]:
        lim \in 0..MaxExportLimit, sir \in 0..2, fmt \in {{"inp", "vtk"}, {"frd", "csv"}}}

InitExport == InitWith(ExportConfs, {Solved})
SpecExport == InitExport /\ [][Next]_vars
FairSpecExport == SpecExport /\ WF_vars(Next)

\* element states and mass: the whole mesh, every start state, state filters
StartStates == {Default, FromState(-1), FromState(1), FromState(3)}
StateFilterLists == {<<SimpleFilter>>, <<ErodeState>>, <<ErodeState, DilateStateSolid>>}

MassConfs ==
    {[BaseConf EXCEPT !.domains_from_config = <<"solid", "shell", "fixed">>,
                      !.iterations_limit = lim, !.continue_from = cf, !.filter_list = fl,
                      !.optimization_base = "buckling", !.mass_goal_ratio = <<1, 100>>]:
        lim \in 0..MaxMassLimit, cf \in StartStates, fl \in StateFilterLists}

\* an analysis whose results are the same in every pass
Steady == [status |-> {0}, files |-> {ResultKinds}, energy |-> {1}, FI |-> {<<1, 2>>},
           artifacts |-> {SolverOutput}, unusable |-> {{}},
     steps |-> {1}, criteria |-> {<<TRUE>>}]

InitMass == InitWith(MassConfs, {Steady})
SpecMass == InitMass /\ [][Next]_vars

\* oscillation: one shell element followed over several passes
OscConfs ==
    {[BaseConf EXCEPT !.iterations_limit = lim, !.optimization_base = "buckling",
                      !.mass_goal_ratio = <<1, 100>>, !.filter_list = fl]:
        lim \in 0..MaxOscLimit, fl \in {<<SimpleFilter>>, <<ErodeState>>}}

InitOsc == InitWith(OscConfs, {Solved})
SpecOsc == InitOsc /\ [][Next]_vars

\* convergence: one shell element, a mean tracked over the passes of long runs
Tolerances == {<<1, 1000>>, <<4, 5>>}
Converging == [status |-> {0}, files |-> {ResultKinds}, energy |-> EnergyValues,
               FI |-> {<<1, 2>>, <<2, 1>>}, artifacts |-> {SolverOutput}, unusable |-> {{}},
     steps |-> {1}, criteria |-> {<<TRUE>>}]

ConvConfs ==
    {[BaseConf EXCEPT !.iterations_limit = lim, !.optimization_base = ob[1],
                      !.domain_FI_filled = ob[2], !.tolerance = tol,
                      !.mass_goal_ratio = <<1, 100>>, !.save_iteration_results = 0]:
        lim \in {0, MaxConvLimit}, tol \in Tolerances,
        ob \in {<<"stiffness", FALSE>>, <<"failure_index", TRUE>>}}

InitConv == InitWith(ConvConfs, {Converging})
SpecConv == InitConv /\ [][Next]_vars

\* the mass goal: two solid elements, failure indices at and below the limit,
\* removing and adding runs, a start at the full mass and at void, a goal
\* mass above and below the void mass
Limited == [status |-> {0}, files |-> {ResultKinds}, energy |-> EnergyValues,
            FI |-> {<<1, 2>>, <<1, 1>>}, artifacts |-> {SolverOutput}, unusable |-> {{}},
     steps |-> {1}, criteria |-> {<<TRUE>>}]

GoalConfs ==
    {[BaseConf EXCEPT !.domains_from_config = <<"solid">>, !.iterations_limit = MaxGoalLimit,
                      !.optimization_base = "failure_index", !.domain_FI_filled = TRUE,
                      !.FI_violated_tolerance = vt, !.mass_goal_ratio = gr,
                      !.continue_from = cf,
                      !.mass_addition_ratio = ratios[1], !.mass_removal_ratio = ratios[2],
                      !.save_iteration_results = 0]:
        vt \in {1}, gr \in {<<2, 5>>, <<1, 5>>}, cf \in {Default, FromState(0)},
        ratios \in {<<<<3, 200>>, <<3, 100>>>>, <<<<3, 100>>, <<3, 200>>>>}}

InitGoal == InitWith(GoalConfs, {Limited})
SpecGoal == InitGoal /\ [][Next]_vars

\* solver files: every export cadence, kinds kept, a solver with and without a .12d file
Buckled == [status |-> {0}, files |-> {ResultKinds}, energy |-> EnergyValues, FI |-> FIValues,
            artifacts |-> {SolverOutput, SolverOutput \cup {"12d"}}, unusable |-> {{}},
     steps |-> {1}, criteria |-> {<<TRUE>>}]

FilesConfs ==
    {[BaseConf EXCEPT !.iterations_limit = lim, !.save_iteration_results = sir,
                      !.save_solver_files = ssf, !.optimization_base = "buckling",
                      !.mass_goal_ratio = <<1, 100>>]:
        lim \in 0..MaxFilesLimit, sir \in 0..2,
        ssf \in {{}, {"frd", "12d"}, {"inp", "dat", "frd", "sta", "cvg", "12d"}}}

InitFiles == InitWith(FilesConfs, {Buckled})
SpecFiles == InitFiles /\ [][Next]_vars

\* filters: the whole mesh, entries that are skipped, scoped to named
\* domains, prepared without a call, and ranged automatically
SimpleZero == [kind |-> <<"simple">>, range |-> 0, auto |-> FALSE, targets |-> <<>>]
EmptyKind == [kind |-> <<>>, range |-> 2, auto |-> FALSE, targets |-> <<>>]
ErodeStateZero == [kind |-> <<"erode", "state">>, range |-> 0, auto |-> FALSE, targets |-> <<>>]
SimpleSolid == [kind |-> <<"simple">>, range |-> 2, auto |-> FALSE, targets |-> <<"solid">>]
OverPointsShell == [kind |-> <<"over", "points">>, range |-> 2, auto |-> FALSE,
                    targets |-> <<"shell">>]
ErodeSensitivity == [kind |-> <<"erode", "sensitivity">>, range |-> 1, auto |-> FALSE,
                     targets |-> <<>>]
SimpleAuto == [kind |-> <<"simple">>, range |-> 0, auto |-> TRUE, targets |-> <<>>]
SimpleAutoSolidShell == [kind |-> <<"simple">>, range |-> 0, auto |-> TRUE,
                         targets |-> <<"solid", "shell">>]
CastingAuto == [kind |-> <<"casting">>, range |-> 0, auto |-> TRUE, targets |-> <<"vector">>]
CastingAutoSolid == [kind |-> <<"casting">>, range |-> 0, auto |-> TRUE,
                     targets |-> <<"vector", "solid">>]

FilterLists ==
    {<<NoFilter>>, <<SimpleZero>>, <<EmptyKind, ErodeStateZero>>, <<SimpleZero, ErodeState>>,
     <<SimpleFilter, ErodeSensitivity>>, <<SimpleSolid>>, <<OverPointsShell, DilateStateSolid>>,
     <<SimpleAuto>>, <<SimpleAutoSolidShell>>, <<CastingAuto>>, <<CastingAutoSolid, CastingAuto>>}

FilterConfs ==
    {[BaseConf EXCEPT !.domains_from_config = <<"solid", "shell", "fixed">>,
                      !.iterations_limit = lim, !.filter_list = fl,
                      !.sensitivity_averaging = avg,
                      !.optimization_base = "stiffness", !.mass_goal_ratio = <<1, 100>>]:
        lim \in 0..MaxFilterLimit, fl \in FilterLists, avg \in BOOLEAN}

Analysed == [status |-> {0}, files |-> {ResultKinds, ResultKinds \ {"energy"}},
             energy |-> {2}, FI |-> FIValues, artifacts |-> {SolverOutput}, unusable |-> {{}},
     steps |-> {1}, criteria |-> {<<TRUE>>}]

InitFilters == InitWith(FilterConfs, {Analysed})
SpecFilters == InitFilters /\ [][Next]_vars

\* failure criteria: configured or not, with elements whose criteria all
\* evaluate to None in some pass
FIConfs ==
    {[BaseConf EXCEPT !.domains_from_config = <<"solid", "shell">>, !.iterations_limit = lim,
                      !.optimization_base = ob[1], !.domain_FI_filled = ob[2],
                      !.mass_goal_ratio = <<1, 100>>]:
        lim \in 0..MaxFILimit, ob \in {<<"stiffness", FALSE>>, <<"stiffness", TRUE>>,
                                       <<"failure_index", TRUE>>}}

WithoutCriteria == [status |-> {0}, files |-> {ResultKinds}, energy |-> {2},
                    FI |-> {<<1, 2>>, <<1, 1>>}, artifacts |-> {SolverOutput},
                    unusable |-> {{}, {1}, {3}},
     steps |-> {1}, criteria |-> {<<TRUE>>}]

InitFI == InitWith(FIConfs, {WithoutCriteria})
SpecFI == InitFI /\ [][Next]_vars

\* mass excess: state filters or none, over several switchings
ExcessConfs ==
    {[BaseConf EXCEPT !.domains_from_config = <<"solid", "shell">>,
                      !.iterations_limit = lim, !.filter_list = fl,
                      !.optimization_base = "buckling", !.mass_goal_ratio = <<1, 100>>,
                      !.save_iteration_results = 0]:
        lim \in {0, MaxExcessLimit}, fl \in StateFilterLists}

InitExcess == InitWith(ExcessConfs, {Steady})
SpecExcess == InitExcess /\ [][Next]_vars

\* the automatic limit: both ratio types, net removal, net addition and equal
\* ratios, from the full mass and from a mass below the goal
NetRatios == {<<<<1, 8>>, <<3, 8>>>>, <<<<3, 8>>, <<1, 8>>>>, <<<<1, 8>>, <<1, 8>>>>}
AutoConfs ==
    {[BaseConf EXCEPT !.domains_from_config = <<"solid">>, !.iterations_limit_auto = TRUE,
                      !.ratio_type = rt, !.continue_from = cf, !.mass_goal_ratio = <<1, 2>>,
                      !.mass_addition_ratio = ratios[1], !.mass_removal_ratio = ratios[2],
                      !.save_iteration_results = 0]:
        rt \in {"relative", "absolute"}, cf \in {Default, FromState(0)}, ratios \in NetRatios}

InitAuto == InitWith(AutoConfs, {Steady})
SpecAuto == InitAuto /\ [][Next]_vars

\* load steps and criteria: one analysis with one or two steps and two
\* criteria, one of which may not apply, from several start states; and runs of
\* several passes with two steps and a criterion that does not apply
StepObjectives == {<<"stiffness", FALSE>>, <<"failure_index", TRUE>>, <<"heat", FALSE>>}
OnePassConfs ==
    {[BaseConf EXCEPT !.domains_from_config = <<"shell", "fixed">>, !.iterations_limit = 0,
                      !.optimization_base = ob[1], !.domain_FI_filled = ob[2],
                      !.continue_from = cf, !.mass_goal_ratio = <<1, 100>>]:
        ob \in StepObjectives, cf \in {Default, FromState(0), FromState(2)}}
StepConfs ==
    {[BaseConf EXCEPT !.domains_from_config = <<"shell", "fixed">>, !.iterations_limit = lim,
                      !.optimization_base = ob[1], !.domain_FI_filled = ob[2],
                      !.mass_goal_ratio = <<1, 100>>]:
        lim \in 1..MaxStepsLimit, ob \in StepObjectives \cup {<<"stiffness", TRUE>>}}

ManySteps == [status |-> {0}, files |-> {ResultKinds}, energy |-> EnergyValues,
              FI |-> {<<1, 2>>, <<1, 1>>}, artifacts |-> {SolverOutput}, unusable |-> {{}},
              steps |-> {1, 2}, criteria |-> {<<FALSE, TRUE>>, <<TRUE, TRUE>>}]
TwoSteps == [status |-> {0}, files |-> {ResultKinds}, energy |-> EnergyValues,
             FI |-> {<<1, 2>>, <<1, 1>>}, artifacts |-> {SolverOutput}, unusable |-> {{}},
             steps |-> {2}, criteria |-> {<<FALSE, TRUE>>}]

\* sensitivity averaging on and off, with energy densities and heat fluxes
\* that change from pass to pass
AvgConfs ==
    {[BaseConf EXCEPT !.domains_from_config = <<"shell", "fixed">>, !.iterations_limit = lim,
                      !.filter_list = fl, !.sensitivity_averaging = avg,
                      !.optimization_base = ob, !.mass_goal_ratio = <<1, 100>>]:
        lim \in 0..MaxAvgLimit, fl \in {<<>>, <<SimpleFilter>>}, avg \in BOOLEAN,
        ob \in {"stiffness", "heat"}}
Varying == [status |-> {0}, files |-> {ResultKinds}, energy |-> {1, 2, 4},
            FI |-> {<<1, 2>>}, artifacts |-> {SolverOutput}, unusable |-> {{}},
            steps |-> {1}, criteria |-> {<<TRUE>>}]
InitAvg == InitWith(AvgConfs, {Varying})
SpecAvg == InitAvg /\ [][Next]_vars

\* what each stage may write: sensitivity-kind and state-kind morphology
\* filters alone and together, over several passes
FrameFilterLists ==
    {<<SimpleFilter>>, <<ErodeSensitivity>>, <<ErodeState>>, <<ErodeSensitivity, ErodeState>>}
FrameConfs ==
    {[BaseConf EXCEPT !.domains_from_config = <<"solid", "shell">>,
                      !.iterations_limit = lim, !.filter_list = fl,
                      !.mass_goal_ratio = <<1, 100>>, !.save_iteration_results = 0]:
        lim \in {0, MaxFrameLimit}, fl \in FrameFilterLists}
InitFrame == InitWith(FrameConfs, {Steady})
SpecFrame == InitFrame /\ [][Next]_vars

\* the three ways the loop ends, with every export cadence
FinalConfs ==
    {[BaseConf EXCEPT !.iterations_limit = lim, !.tolerance = <<4, 5>>,
                      !.mass_goal_ratio = <<1, 100>>, !.save_iteration_results = sir,
                      !.save_solver_files = ssf]:
        lim \in {0, 2, MaxFinalLimit}, sir \in 0..2, ssf \in {{}, {"frd", "12d"}}}
InitFinal == InitWith(FinalConfs, {Converging})
SpecFinal == InitFinal /\ [][Next]_vars

\* convergence with and without the goal mass reached: a goal the run never
\* reaches and one it reaches after its first switchings
ToleranceConfs ==
    {[BaseConf EXCEPT !.iterations_limit = lim, !.tolerance = <<4, 5>>,
                      !.mass_goal_ratio = gr, !.save_iteration_results = 0]:
        lim \in {0, MaxConvLimit}, gr \in {<<1, 100>>, <<2, 5>>}}
InitTolerance == InitWith(ToleranceConfs, {Converging})
SpecTolerance == InitTolerance /\ [][Next]_vars

InitSteps == InitWith(OnePassConfs, {ManySteps}) \/ InitWith(StepConfs, {TwoSteps})
SpecSteps == InitSteps /\ [][Next]_vars

\* ------------------------------------------------------------ claims
\* the stages of pass k that the claims speak of
Imported(k) == Ran("import_results", k)
SensitivityComputed(k) == Ran("sensitivity", k)
Switched(k) == Ran("switching", k)
Ended == pc \in {"done", "failed"}

\* C1: if the solver of iteration i returns a non-zero exit status, the run
\* ends with a solver error in that iteration, and result import, sensitivity
\* computation and state switching are not executed for iteration i.
C1_SolverErrorEndsRun ==
    exit_status # 0 =>
        /\ pc = "failed"
        /\ ~Imported(file_nameW)
        /\ ~SensitivityComputed(file_nameW)
        /\ ~Switched(file_nameW)

\* the data the active objective needs is empty after the import of pass k
RequiredDataMissing ==
    \/ conf.optimization_base = "stiffness" /\ "energy" \notin results.present
    \/ conf.optimization_base = "buckling" /\ "buckling" \notin results.present
    \/ conf.optimization_base = "heat" /\ "heat" \notin results.present
    \/ conf.domain_FI_filled /\ "FI" \notin results.present

\* C2: if the result data the active objective requires is empty after the
\* import of iteration i, the run writes an error to the log and aborts in
\* iteration i before sensitivity computation and state switching, with
\* elm_states and the mass ledger as they were at the start of the iteration.
C2_MissingResultsAbort ==
    (Ran("check_results", file_nameW) /\ RequiredDataMissing) =>
        /\ pc = "failed"
        /\ exception = "AssertionError"
        /\ "ERROR: CalculiX results not found" \in log
        /\ ~SensitivityComputed(file_nameW)
        /\ ~Switched(file_nameW)
        /\ elm_states = pass_start.elm_states
        /\ mass = pass_start.mass

\* C2 witness: the abort happens in a pass after the first, after states were switched
C2_Witness ==
    /\ pc = "failed"
    /\ exception = "AssertionError"
    /\ RequiredDataMissing
    /\ i >= 1
    /\ elm_states # InitialElmStates(conf)

SolverRuns == Cardinality({n \in 1..Len(ran) : ran[n][1] = "run_calculix"})
AfterLoop == pc \in {"final_mesh_export", "final_cleanup", "done"}

\* C5: for every integer iterations_limit >= 0 the run terminates; the
\* iteration index never exceeds iterations_limit, the solver is invoked at
\* most iterations_limit + 1 times, and a loop that did not stop earlier
\* exits in the pass in which the index first equals iterations_limit.
C5_LimitBoundsRun ==
    /\ [](/\ i <= conf.iterations_limit
          /\ SolverRuns <= conf.iterations_limit + 1
          /\ Ran("finish", conf.iterations_limit) => AfterLoop
          /\ (AfterLoop /\ continue_iterations /\ ~oscillations) => i = conf.iterations_limit)
    /\ <>Ended

\* C5 witness: a run that ended at the largest limit drawn, every pass run
C5_Witness ==
    /\ pc = "done"
    /\ ~oscillations
    /\ i = conf.iterations_limit
    /\ i = MaxExportLimit
    /\ SolverRuns = i + 1

\* C10: on every terminal transition, at any terminal iteration index and for
\* any export cadence, the final element states are exported in each
\* configured mesh format and the terminal iteration's element values in each
\* configured value format before the run ends.
C10_FinalExportAlways ==
    pc = "done" =>
        \A f \in conf.save_resulting_format :
            \E x \in exported :
                /\ x.format = f
                /\ x.iteration = i
                /\ f \in {"frd", "inp"} => x.states = elm_states

\* C3: for every iteration k >= 2 the loop ends with OSCILLATING at k if and
\* only if the element states after the switching and state filtering of k
\* equal those after iteration k - 2 (the initial ones when k = 2); it never
\* ends with OSCILLATING at iteration 1.
C3_OscillationIffRepeat ==
    LET k == Len(elm_states_history) - 1 IN
    oscillations <=> (k >= 2 /\ elm_states_history[k + 1] = elm_states_history[k - 1])

\* the mass of the optimized domains at the present element states
ConsistentMass == mass[Len(mass)] = MassOf(conf.domains_from_config, elm_states)

\* C6: after initialization and after every state-filter correction, mass[i]
\* equals the sum over the elements of optimized domains of density x volume
\* (solids) or density x area x thickness (shells) at the current elm_states.
C6_MassMatchesStates ==
    (pc # "filter_state" /\ Len(mass) = i + 1) => ConsistentMass

\* C6 witness: two state filters ran and changed a shell and a solid element
C6_Witness ==
    /\ pc = "export_mesh"
    /\ Len(conf.filter_list) = 2
    /\ mass_excess # 0
    /\ \E n \in 1..Len(ran) : ran[n][1] = "switching"
    /\ ConsistentMass

\* C7: at initialization and after every iteration, every element of every
\* configured domain has a state index s with 0 <= s < number of states
\* declared for its domain.
C7_StatesInRange ==
    \A en \in Elems : 0 <= elm_states[en] /\ elm_states[en] <= HighestState(DomainOf(en))

\* |a - b| / a < tol for ratios a > 0, b and tol, by cross-multiplication
RelativeChangeBelow(a, b, tol) ==
    LET diff == a[1] * b[2] - b[1] * a[2] IN
    (IF diff < 0 THEN -diff ELSE diff) * tol[2] < tol[1] * b[2] * a[1]

\* the stop condition of the claim for the mean v at iteration k
StopsAsConverged(v, k) ==
    /\ k >= 5
    /\ Len(v) = k + 1
    /\ \/ \A d \in 1..5 : RelativeChangeBelow(v[k + 1], v[k + 1 - d], conf.tolerance)
       \/ v[k + 1] = v[k] /\ v[k] = v[k - 1]

\* C4: the loop stops as CONVERGED at iteration i exactly when at least 6
\* values of the tracked mean are recorded and either the largest relative
\* change against the 5 values before is below tolerance or the last three
\* values are equal; it stops at no earlier iteration and at none where
\* neither holds.
C4_ConvergedExactlyWhen ==
    /\ pc = "finish" =>
          (continue_iterations = FALSE
             <=> (StopsAsConverged(FI_mean, i) \/ StopsAsConverged(energy_density_mean, i)))
    /\ continue_iterations = FALSE => (pc = "finish" \/ AfterLoop)

\* C4 witness: the run stopped on the stall branch alone, below the limit
C4_Witness ==
    /\ pc = "done"
    /\ continue_iterations = FALSE
    /\ i < conf.iterations_limit
    /\ StopsAsConverged(energy_density_mean, i)
    /\ \E d \in 1..5 : ~RelativeChangeBelow(energy_density_mean[i + 1],
                                             energy_density_mean[i + 1 - d], conf.tolerance)

\* no iteration so far had more violating elements than the baseline plus tolerance
NoViolationYet ==
    \A k \in 1..Len(FI_violated) :
        SeqSum(FI_violated[k]) <= SeqSum(FI_violated[1]) + conf.FI_violated_tolerance

\* C8: in a net-removing run in which no iteration has more violating
\* elements than the baseline plus tolerance, the successive mass_goal_i
\* values are non-increasing and each is at least mass_goal_ratio x mass_full.
C8_GoalNonIncreasing ==
    /\ []((NetRemoving(conf) /\ NoViolationYet /\ mass_goal_i.set)
             => RLe(GoalMass(conf), mass_goal_i.v))
    /\ [][(NetRemoving(conf) /\ NoViolationYet' /\ mass_goal_i.set /\ mass_goal_i'.set)
             => RLe(mass_goal_i'.v, mass_goal_i.v)]_vars

\* C8 witness: the goal of iteration 2 is set after the mass went up in
\* iteration 1 and more elements violate than at the start, within tolerance
C8_Witness ==
    /\ NetRemoving(conf)
    /\ NoViolationYet
    /\ mass_goal_i.set
    /\ Ran("mass_goal", 1)
    /\ pc = "switching"
    /\ mass[2] > mass[1]
    /\ SeqSum(FI_violated[2]) > SeqSum(FI_violated[1])

\* C9: when the initial mass of a net-removing run is at or below the goal
\* mass and no goal value was set yet, the condition is logged as a warning
\* and is not fatal: the iteration goes through state switching and the
\* loop continues.
C9_WarningNotFatal ==
    ("WARNING: mass goal is lower than initial mass" \in log /\ Ran("switching", 0))
        => (pc # "failed" /\ Len(mass) >= 2)

\* C11: a solver artifact whose kind is listed in save_solver_files is never
\* removed, on or off the export cadence, and every artifact whose kind is
\* not listed has been removed by the end of the run.
C11_ListedKeptOthersRemoved ==
    /\ \A f \in removed : f[2] \notin conf.save_solver_files
    /\ pc = "done" => \A f \in files : f[2] \in conf.save_solver_files

\* whether filter preparation, the sensitivity stage and the state stage of the
\* present pass have run
Prepared == pc # "prepare_filters" /\ Len(prepared) = Len(conf.filter_list)
SensitivityFiltered == Len(applied.sensitivity) = Len(conf.filter_list)
StateFiltered == Len(applied.state) = Len(conf.filter_list)
\* an entry whose kind is empty or whose range is 0
Inactive(ft) == ft.kind = <<>> \/ (~ft.auto /\ ft.range = 0)

\* C12: every filter entry whose kind is empty or whose range is 0 is skipped
\* by filter preparation, sensitivity filtering and state filtering; when all
\* entries are such and sensitivity averaging is off, sensitivity_number after
\* the filter stage is its pre-filter value for every element, and the
\* state-filter stage changes neither elm_states nor mass[i].
C12_InactiveFiltersSkipped ==
    /\ \A k \in 1..Len(conf.filter_list) :
          Inactive(conf.filter_list[k]) =>
             /\ Prepared => ~prepared[k].prepared
             /\ SensitivityFiltered => ~applied.sensitivity[k].ran
             /\ StateFiltered => ~applied.state[k].ran
    /\ ((\A k \in 1..Len(conf.filter_list) : Inactive(conf.filter_list[k]))
          /\ ~conf.sensitivity_averaging) =>
             /\ pc = "mean_values" =>
                   sensitivity_number = SensitivityOf(conf, results, elm_states)
             /\ pc = "export_mesh" =>
                   /\ elm_states = switched.elm_states
                   /\ mass[i + 1] = switched.mass
                   /\ mass_excess = 0

\* C12 witness: a list of two inactive entries, one with a state filter's
\* name, went through the state stage of a pass that switched states
C12_Witness ==
    /\ pc = "export_mesh"
    /\ conf.filter_list = <<EmptyKind, ErodeStateZero>>
    /\ ~conf.sensitivity_averaging
    /\ StateFiltered
    /\ elm_states # pass_start.elm_states

\* the target set of a non-directional entry: the elements of the domains it
\* names, all elements of optimized domains when it names none
TargetSet(c, ft) ==
    IF Len(ft.targets) = 0
    THEN {en \in ElementsOf(c.domains_from_config) : domain_optimized[DomainOf(en)]}
    ELSE {en \in 1..4 : \E k \in 1..Len(ft.targets) : en \in domains[ft.targets[k]]}

\* C13: for every non-directional filter, the set of elements the filter is
\* prepared for before the loop equals the set it is applied to in the
\* sensitivity stage and in the state stage of each iteration: the elements of
\* the named target domains, all elements of optimized domains when none are named.
C13_PreparedIsApplied ==
    \A k \in 1..Len(conf.filter_list) :
       LET ft == conf.filter_list[k] IN
       (~Inactive(ft) /\ ft.kind # <<"casting">>) =>
          /\ (Prepared /\ prepared[k].prepared) => prepared[k].elements = TargetSet(conf, ft)
          /\ (SensitivityFiltered /\ applied.sensitivity[k].ran)
                => applied.sensitivity[k].elements = TargetSet(conf, ft)
          /\ (StateFiltered /\ applied.state[k].ran)
                => applied.state[k].elements = TargetSet(conf, ft)

\* the element sizes averaged over the elements ens, doubled
DoubleAverageSize(ens) ==
    <<2 * SumOver(ens, size_elm), Cardinality(ens)>>

\* the elements of the domains entry ft targets, directional entries included
OwnTargets(c, ft) ==
    IF ft.kind = <<"casting">>
    THEN TargetSet(c, [ft EXCEPT !.targets = Tail(ft.targets)])
    ELSE TargetSet(c, ft)

\* C14: for every filter whose range is "auto", at any position in
\* filter_list, preparation completes and the range used is 2 x the average
\* element size over that filter's own targeted domains.
C14_AutoRangeOwnTargets ==
    pc # "prepare_filters" =>
       \A k \in 1..Len(conf.filter_list) :
          LET ft == conf.filter_list[k] IN
          (ft.kind # <<>> /\ ft.auto) =>
             /\ Len(prepared) >= k
             /\ REq(prepared[k].f_range, DoubleAverageSize(OwnTargets(conf, ft)))

\* the stages of a loop pass in the order of the claim's amended statement:
\* input generation, solver run, result import (and its check), sensitivity
\* computation, sensitivity filtering, the means and their export, the
\* convergence and limit decision, then the mass goal, state switching, state
\* filtering, mesh export, oscillation check and solver file removal
PassOrder ==
    <<"write_inp", "run_calculix", "import_results", "check_results", "sensitivity",
      "filter_sensitivity", "mean_values", "export_values", "convergence", "finish",
      "mass_goal", "switching", "filter_state", "export_mesh", "oscillation",
      "remove_solver_files">>

\* C15 (amended): in every loop pass the stages run in the order solver
\* input generation, solver run, result import, sensitivity computation,
\* sensitivity filtering, convergence/limit decision, state switching, state
\* filtering: the decision of a pass is taken before that pass's switching,
\* and switching never runs before the solver run and sensitivity filtering
\* of the same pass.
C15_StagesInOrder ==
    \A n \in 1..Len(ran) :
        ran[n] = <<PassOrder[((n - 1) % Len(PassOrder)) + 1], (n - 1) \div Len(PassOrder)>>

\* C15 witness: a third pass took its decision after two passes that switched and filtered states
C15_Witness ==
    /\ Ran("finish", 2)
    /\ Ran("switching", 1)
    /\ Ran("filter_state", 1)
    /\ pc = "done"

\* C15 as stated: the convergence and iteration-limit decision of a pass is
\* taken after that pass's state switching and state filtering.
C15_DecisionAfterSwitching ==
    \A n \in 1..Len(ran) :
        ran[n][1] = "finish" =>
            \E m \in 1..(n - 1) : ran[m] = <<"filter_state", ran[n][2]>>

FIMaxError == "ERROR: FI_max computing failed"

\* C17 (amended): when failure criteria are configured and some element has
\* no usable failure criterion while the per-domain maximum failure index is
\* computed, the anomaly is written to the log and the run stops there with
\* an exception: none of the remaining stages of the iteration runs.
C17_MissingCriterionEndsRun ==
    /\ (Ran("sensitivity", i) /\ conf.domain_FI_filled /\ results.unusable # {}) =>
           /\ FIMaxError \in log
           /\ pc = "failed"
           /\ exception = "Exception"
           /\ ran[Len(ran)] = <<"sensitivity", i>>
    /\ FIMaxError \in log => pc = "failed"

\* C17 witness: the second pass met an element without usable criterion
C17_Witness ==
    /\ FIMaxError \in log
    /\ i = 1
    /\ results.unusable = {3}
    /\ conf.optimization_base = "stiffness"

\* C17 as stated: the anomaly is written to the log and the run continues
\* with the remaining stages of the iteration instead of stopping.
C17_MissingCriterionLogged ==
    (Ran("sensitivity", i) /\ conf.domain_FI_filled /\ results.unusable # {}) =>
        /\ FIMaxError \in log
        /\ pc # "failed"

\* the goal of iteration i is set and switching is next; mass[i - 1] and
\* FI_violated[i - 1] of the code are the i-th entries of the sequences
GoalSetFor(k) == pc = "switching" /\ i = k /\ Ran("mass_goal", k - 1)
MoreViolating(k) ==
    SeqSum(FI_violated[k]) > SeqSum(FI_violated[1]) + conf.FI_violated_tolerance

\* C18: in a net-removing run, for every iteration i >= 1 in which the total
\* number of violating elements of iteration i-1 exceeds the total of
\* iteration 0 plus FI_violated_tolerance, mass_goal_i equals the larger of
\* mass[i-1] and mass_goal_ratio x mass_full, so no mass below the current
\* mass is targeted.
C18_GoalHeldWhileViolated ==
    \A k \in 1..Len(mass) :
        (GoalSetFor(k) /\ NetRemoving(conf) /\ MoreViolating(k)) =>
            /\ mass_goal_i.set
            /\ \/ RLe(GoalMass(conf), RInt(mass[k])) /\ REq(mass_goal_i.v, RInt(mass[k]))
               \/ RLe(RInt(mass[k]), GoalMass(conf)) /\ REq(mass_goal_i.v, GoalMass(conf))
            /\ RLe(RInt(mass[k]), mass_goal_i.v)

\* C18 witness: the goal of iteration 2 is held at a mass above the goal mass
C18_Witness ==
    /\ GoalSetFor(2)
    /\ NetRemoving(conf)
    /\ MoreViolating(2)
    /\ RLt(GoalMass(conf), RInt(mass[2]))
    /\ mass_goal_i.v = RInt(mass[2])

\* the state stage of iteration k is over: mass[k] of the code is the
\* (k + 1)-th entry of the ledger
StateStageDone(k) == pc = "export_mesh" /\ i = k
\* the sum of the per-element mass deltas between the states switching
\* produced and the states after the state filters
StateChangeDeltas ==
    SumOver(DOMAIN elm_states,
            [en \in DOMAIN elm_states |->
                ElementMass(en, elm_states[en]) - ElementMass(en, switched.elm_states[en])])
StateFilterConfigured ==
    \E k \in 1..Len(conf.filter_list) : StateFilterKind(conf.filter_list[k]) = "state"

\* C19: after every iteration i >= 1, mass_excess equals mass[i] after state
\* filtering minus mass[i] as produced by switching, the sum of the
\* per-element mass deltas of the state changes made by state filters in
\* iteration i; it is 0 when no state filter is configured or none changes a
\* state; and the value passed to the switching of iteration i + 1 is this
\* per-iteration value, not an accumulated one.
C19_MassExcessPerIteration ==
    /\ [](\A k \in 1..Len(mass) :
             StateStageDone(k) =>
                /\ mass_excess = mass[k + 1] - switched.mass
                /\ mass_excess = StateChangeDeltas
                /\ (~StateFilterConfigured \/ elm_states = switched.elm_states)
                      => mass_excess = 0)
    /\ [][(pc = "switching" /\ pc' = "filter_state" /\ i >= 2)
             => switched'.mass_excess = mass[i] - switched.mass]_vars

\* C19 witness: the switching of iteration 2 was passed the nonzero excess of
\* iteration 1 and the state filters of iteration 2 left another excess
C19_Witness ==
    /\ StateStageDone(2)
    /\ switched.mass_excess # 0
    /\ mass_excess # 0
    /\ mass_excess # switched.mass_excess

RECURSIVE RPow(_, _)
RPow(a, n) == IF n = 0 THEN <<1, 1>> ELSE RMul(a, RPow(a, n - 1))

\* the initial mass fraction m0, the net ratio and the factor of one step
InitialFraction == Rat(mass[1], MassFull(conf.domains_from_config))
NetRatio == RSub(conf.mass_removal_ratio, conf.mass_addition_ratio)
\* whether n is the number of steps from m0 to the goal fraction of the claim
StepsToGoal(n) ==
    LET after(k) == RMul(InitialFraction, RPow(RSub(<<1, 1>>, NetRatio), k)) IN
    IF n < 0 THEN FALSE
    ELSE IF conf.ratio_type = "relative" /\ RLt(<<0, 1>>, NetRatio)
    THEN /\ RLe(after(n), conf.mass_goal_ratio)
         /\ \A k \in 0..(n - 1) : ~RLe(after(k), conf.mass_goal_ratio)
    ELSE IF conf.ratio_type = "relative"
    THEN /\ RLe(conf.mass_goal_ratio, after(n))
         /\ \A k \in 0..(n - 1) : ~RLe(conf.mass_goal_ratio, after(k))
    ELSE LET q == RDiv(RAbs(RSub(InitialFraction, conf.mass_goal_ratio)), RAbs(NetRatio)) IN
         n = q[1] \div q[2]

\* C20: with iterations_limit = "auto" and a net removal or net addition, the
\* derived limit is n + 25, n >= 0 the number of steps from m0 to
\* mass_goal_ratio at the net ratio: relative, the smallest n with
\* m0 x (1 - (removal - addition))^n beyond the goal; absolute, the integer
\* part of |m0 - mass_goal_ratio| / |removal - addition|; the limit is never below 25.
C20_AutoLimitFromSteps ==
    (conf.iterations_limit_auto /\ pc \notin {"auto_limit", "auto_limit_loop"}
        /\ ~REq(NetRatio, <<0, 1>>)) =>
        /\ ~iterations_limit.auto
        /\ iterations_limit.n >= 25
        /\ StepsToGoal(iterations_limit.n - 25)

\* the failure indices of element en the last import holds, over all load
\* steps and criteria, entries that are None left out
UsableFI(en) ==
    UNION {{results.FI[sn][en][k].v :
               k \in {j \in 1..Len(results.FI[sn][en]) : ~results.FI[sn][en][j].none}} :
           sn \in 1..Len(results.FI)}
\* the sensitivity stage of pass k has just run
SensitivityDone(k) == pc = "filter_sensitivity" /\ i = k

\* C21: for every iteration i and every configured domain d, FI_violated[i][d]
\* is the number of elements of d whose maximum failure index over all load
\* steps and criteria, undefined entries ignored, is >= 1; it is 0 for every
\* domain when no failure criteria are configured; exactly one list of
\* per-domain counters is appended per iteration.
C21_ViolatedCounts ==
    /\ Len(FI_violated) \in {i, i + 1}
    /\ \A k \in 0..Len(FI_violated) :
          SensitivityDone(k) =>
             /\ Len(FI_violated) = k + 1
             /\ Len(FI_violated[k + 1]) = Len(conf.domains_from_config)
             /\ \A d \in 1..Len(conf.domains_from_config) :
                   FI_violated[k + 1][d] =
                      IF conf.domain_FI_filled
                      THEN Cardinality({en \in domains[conf.domains_from_config[d]] :
                                           \E v \in UsableFI(en) : RLe(<<1, 1>>, v)})
                      ELSE 0

\* C21 witness: in a two-step analysis an element violates in the second
\* step only, by its second criterion, and the other domain has no violation
C21_Witness ==
    /\ SensitivityDone(0)
    /\ conf.domain_FI_filled
    /\ Len(results.FI) = 2
    /\ results.FI[1][3] = <<Value(<<1, 2>>), Value(<<1, 2>>)>>
    /\ results.FI[2][3] = <<Value(<<1, 2>>), Value(<<1, 1>>)>>
    /\ FI_violated[1] = <<1, 0>>

\* the largest energy density of element en over the load steps of the last import
LargestEnergy(en) ==
    CHOOSE x \in {results.energy[sn][en] : sn \in 1..Len(results.energy)} :
        \A sn \in 1..Len(results.energy) : results.energy[sn][en] <= x
\* the largest usable failure index of element en, 0 when there is none
LargestFI(en) ==
    IF UsableFI(en) = {} THEN <<0, 1>>
    ELSE CHOOSE x \in UsableFI(en) : \A y \in UsableFI(en) : RLe(y, x)
\* C22: the unfiltered sensitivity number of an element is, for objective
\* stiffness, the maximum over load steps of its energy density; for objective
\* failure_index, its maximum failure index over steps and criteria divided by
\* the density of its current state; for objective heat, its heat flux divided
\* by its volume, or by area times the thickness of its current state for a
\* shell element.
C22_UnfilteredSensitivity ==
    \A k \in 0..(MaxStepsLimit + 1) :
        SensitivityDone(k) =>
            \A en \in ElementsOf(conf.domains_from_config) :
                LET dn == CHOOSE d \in Range(conf.domains_from_config) : en \in domains[d]
                    got == sensitivity_number[en].v IN
                CASE conf.optimization_base = "stiffness" ->
                        REq(got, RInt(LargestEnergy(en)))
                  [] conf.optimization_base = "failure_index" ->
                        REq(got, RDiv(LargestFI(en), RInt(domain_density[dn][elm_states[en] + 1])))
                  [] conf.optimization_base = "heat" ->
                        IF en \in DOMAIN volume_elm
                        THEN REq(got, Rat(results.energy[1][en], volume_elm[en]))
                        ELSE REq(got, RDiv(RInt(results.energy[1][en]),
                                           RMul(RInt(area_elm[en]),
                                                RInt(domain_thickness[dn][elm_states[en] + 1]))))
                  [] OTHER -> TRUE

\* C22 witness: by stiffness an element's energy density is larger in the
\* first of two steps than in the second, and its sensitivity is the larger
C22_Witness ==
    /\ SensitivityDone(0)
    /\ conf.optimization_base = "stiffness"
    /\ Len(results.energy) = 2
    /\ results.energy[1][3] > results.energy[2][3]
    /\ REq(sensitivity_number[3].v, RInt(results.energy[1][3]))

\* C22 witness for heat: a shell element in its thickest state has its heat
\* flux divided by area times that thickness
C22_WitnessShellHeat ==
    /\ SensitivityDone(0)
    /\ conf.optimization_base = "heat"
    /\ elm_states[3] = 2
    /\ results.energy[1][3] = 2
    /\ REq(sensitivity_number[3].v, <<1, 1>>)

\* the sensitivity numbers the filters of filter_list leave, before averaging
FilteredNow ==
    FilterSensitivityFrom(conf, 1, prepared,
                          [sn |-> sensitivity_number, applied |-> <<>>, exc |-> ""]).sn
\* the filtering stage of the pass completes in this step
FilteringCompletes == pc = "filter_sensitivity" /\ pc' = "mean_values"

\* C23: with sensitivity_averaging enabled, in iteration 0 the filtered
\* sensitivities are left unchanged and in every iteration i > 0 each optimized
\* element's sensitivity is replaced by the arithmetic mean of its current
\* filtered value and its previous iteration's value; with it disabled the
\* sensitivities of successive iterations are never combined, for any objective.
C23_AveragingWithPrevious ==
    /\ [](conf.sensitivity_averaging /\ pc = "sensitivity" /\ i > 0 =>
             \A en \in opt_domains(conf.domains_from_config) :
                 sensitivity_number_old[en].v = sensitivity_number[en].v)
    /\ [][/\ pc = "sensitivity" => sensitivity_number_old' = sensitivity_number_old
          /\ FilteringCompletes =>
               \A en \in DOMAIN sensitivity_number :
                  IF conf.sensitivity_averaging /\ i > 0
                     /\ en \in opt_domains(conf.domains_from_config)
                  THEN REq(RAdd(sensitivity_number'[en].v, sensitivity_number'[en].v),
                           RAdd(FilteredNow[en].v, sensitivity_number_old[en].v))
                  ELSE sensitivity_number'[en] = FilteredNow[en]]_vars

\* C23 witness: in iteration 1 with averaging an element whose filtered value
\* is 4 and whose value of iteration 0 was 1 has the sensitivity 5/2
C23_Witness ==
    /\ conf.sensitivity_averaging
    /\ pc = "mean_values"
    /\ i = 1
    /\ results.energy[1][3] = 4
    /\ sensitivity_number_old[3].v = <<5, 2>>
    /\ sensitivity_number[3].v = <<5, 2>>

\* the filters of filter_list whose name is a morphology operation marked with word
MarkedFilters(word) ==
    {k \in 1..Len(conf.filter_list) :
        /\ Len(conf.filter_list[k].kind) = 2
        /\ conf.filter_list[k].kind[1] \in MorphologyOps
        /\ conf.filter_list[k].kind[2] = word}

\* C24: elm_states is modified only by the switching step and by state-kind
\* morphology filters applied after it, and is unchanged from the start of a
\* loop pass up to the switching call; a morphology filter marked
\* "sensitivity" never changes elm_states, a filter marked "state" never
\* changes sensitivity_number, and a state-kind filter changes mass-ledger
\* entry i only, never an entry of an earlier iteration.
C24_StateWrittenBySwitchingAndStateFilters ==
    /\ [](pc \in {"run_calculix", "import_results", "check_results", "sensitivity",
                  "filter_sensitivity", "mean_values", "export_values", "convergence",
                  "finish", "mass_goal", "switching"}
             => elm_states = pass_start.elm_states)
    /\ [][/\ pc \notin {"switching", "filter_state"} => elm_states' = elm_states
          /\ pc = "filter_state" =>
                /\ sensitivity_number' = sensitivity_number
                /\ Len(mass') = Len(mass)
                /\ \A k \in 1..Len(mass) : k # i + 1 => mass'[k] = mass[k]
                /\ MarkedFilters("state") = {} => elm_states' = elm_states /\ mass' = mass
          /\ pc = "filter_sensitivity" /\ MarkedFilters("state") = 1..Len(conf.filter_list)
                => sensitivity_number' = sensitivity_number]_vars

\* C24 witness: in iteration 2 a state-kind filter that follows a
\* sensitivity-kind one has changed element states and mass entry 2
C24_Witness ==
    /\ StateStageDone(2)
    /\ MarkedFilters("sensitivity") # {}
    /\ MarkedFilters("state") # {}
    /\ elm_states # switched.elm_states
    /\ mass[3] # switched.mass

\* the position in the run of the last stage called name, 0 when there is none
LastStage(name) ==
    LET at == {n \in 1..Len(ran) : ran[n][1] = name} IN
    IF at = {} THEN 0 ELSE CHOOSE n \in at : \A m \in at : m <= n
\* the loop is left and the final mesh export is over
FinalExportOver == pc \in {"final_cleanup", "done"}
\* the mesh files that hold the final design: the final export, or the
\* in-loop export of the last iteration index
FinalDesignExports ==
    {x \in exported : x.format \in {"frd", "inp"} /\ (x.at = "final" \/ x.iteration = i)}
\* a stopped loop ends with the assignment of its last solver run, exported as such
StoppedWithAnalysedDesign ==
    /\ LastStage("switching") < LastStage("run_calculix")
    /\ LastStage("filter_state") < LastStage("run_calculix")
    /\ elm_states = pass_start.elm_states
    /\ \A x \in FinalDesignExports : x.states = pass_start.elm_states

\* C25 as stated: when the loop exits as CONVERGED or ITERATION-LIMIT,
\* elm_states is exactly the assignment analysed by the last solver run and
\* the exported final design is that assignment; when it exits as
\* OSCILLATING, elm_states has been switched after the last solver run, so
\* the exported final design has not been analysed by the solver.
C25_OscillatingDesignNotAnalysed ==
    FinalExportOver =>
        IF ~oscillations THEN StoppedWithAnalysedDesign
        ELSE /\ LastStage("run_calculix") < LastStage("switching")
             /\ \A x \in FinalDesignExports : x.states # pass_start.elm_states

\* C25 amended: when the loop exits as CONVERGED or ITERATION-LIMIT,
\* elm_states is exactly the assignment analysed by the last solver run and
\* the exported final design is that assignment; when it exits as
\* OSCILLATING, switching has run on elm_states after the last solver run and
\* no solver run follows it, so the exported final design is the outcome of
\* that switching, which may or may not differ from the assignment analysed.
C25_FinalDesign ==
    FinalExportOver =>
        IF ~oscillations THEN StoppedWithAnalysedDesign
        ELSE /\ LastStage("run_calculix") < LastStage("switching")
             /\ LastStage("run_calculix") < LastStage("filter_state")
             /\ \A x \in FinalDesignExports : x.states = elm_states

\* C25 witness: the loop stopped as CONVERGED before its limit and the final
\* export holds the assignment of the last solver run
C25_Witness ==
    /\ pc = "done"
    /\ ~oscillations
    /\ ~continue_iterations
    /\ i < conf.iterations_limit
    /\ \E x \in FinalDesignExports : x.at = "final" /\ x.states = pass_start.elm_states

\* C25 witness for the oscillation exit: the exported final design differs
\* from the assignment of the last solver run
C25_WitnessOscillating ==
    /\ pc = "done"
    /\ oscillations
    /\ \E x \in FinalDesignExports : x.states # pass_start.elm_states

\* the mesh-state files written so far
MeshExports == {x \in exported : x.format \in {"frd", "inp"}}

\* C26: every mesh-state export (frd/inp) is written under the zero-padded
\* file stem of the iteration whose element states it contains, on every
\* termination path: element states of two different iterations are never
\* exported to the same file stem.
C26_ExportUnderOwnStem ==
    /\ \A x \in MeshExports : x.stem = x.iteration
    /\ \A x, y \in MeshExports : x.stem = y.stem => x.iteration = y.iteration

\* the mandatory kinds of solver job file
MandatoryKinds == {"inp", "dat", "frd", "sta", "cvg"}
\* a cleanup is about to run: the one in the loop, or the final one
CleanupNext == pc \in {"remove_solver_files", "final_cleanup"}
\* the iteration index of the last solver run
LastSolved == ran[LastStage("run_calculix")][2]

\* C27: the solver job files of each iteration are subject to at most one
\* removal pass per run, on all three termination paths: the in-loop cleanup
\* of a pass removes the files of the iteration solved in that pass, the
\* final cleanup removes the files of the last solver run only, and no
\* removal is ever attempted on a mandatory file that an earlier cleanup
\* already removed.
C27_OneRemovalPassPerIteration ==
    /\ [](CleanupNext =>
             /\ file_nameW = LastSolved
             /\ \A f \in removed : f[1] # file_nameW)
    /\ [](calculix.artifacts = {SolverOutput} => exception # "FileNotFoundError")
    /\ [][/\ \A f \in files \ files' : CleanupNext /\ f[1] = LastSolved
          /\ pc = "remove_solver_files" /\ pc' = "write_inp" =>
                \A kind \in MandatoryKinds : <<i - 1, kind>> \notin files'
                    \/ (OnCadence(conf.save_iteration_results, i - 1)
                        /\ kind \in conf.save_solver_files)]_vars

\* C27 witness: after an oscillation stop at iteration 3 the final cleanup has
\* removed the files of the last solver run, those of iteration 2, and the
\* cleanups in the loop had removed those of iterations 0 and 1
C27_Witness ==
    /\ pc = "done"
    /\ oscillations
    /\ i = 3
    /\ \A k \in 0..2 : <<k, "dat">> \in removed
    /\ \A f \in files : f[1] = 2 /\ f[2] \in conf.save_solver_files

\* the iterations k >= 1 whose mass goal has been set so far
GoalsSet == 1..Cardinality({n \in 1..Len(ran) : ran[n][1] = "mass_goal"})
\* the goal mass is reached by the mass of iteration k - 1: from above in a
\* net-removing run, from below otherwise
GoalMassReached(k) ==
    IF RLt(conf.mass_addition_ratio, conf.mass_removal_ratio)
    THEN RLe(RInt(mass[k]), RMul(conf.mass_goal_ratio, RInt(MassFull(conf.domains_from_config))))
    ELSE RLe(RMul(conf.mass_goal_ratio, RInt(MassFull(conf.domains_from_config))), RInt(mass[k]))
\* the iterations at which the decay is to start
DecayDue == {k \in GoalsSet : MoreViolating(k) \/ GoalMassReached(k)}

\* C28: i_violated is assigned at most once in a run: it is 0 until the
\* first iteration i >= 1 in which either violations exceed the baseline plus
\* tolerance or the goal mass is reached, is then set to that iteration index,
\* and never changes afterwards; in every reachable state check_tolerance is
\* True exactly when i_violated is non-zero.
C28_ViolatedIndexSetOnce ==
    /\ i_violated = IF DecayDue = {} THEN 0
                    ELSE CHOOSE k \in DecayDue : \A j \in DecayDue : k <= j
    /\ check_tolerance <=> i_violated # 0

\* C29: with iterations_limit = "auto", the derivation terminates and leaves
\* iterations_limit an integer for every configuration with mass_goal_ratio in
\* [0, 1], ratio_type relative or absolute and any non-negative
\* mass_addition_ratio and mass_removal_ratio, including equal ratios, so that
\* the later comparison of the iteration index with the limit is well defined.
C29_AutoLimitIsInteger ==
    conf.iterations_limit_auto /\ pc # "auto_limit" =>
        /\ pc # "auto_limit_loop"
        /\ ~iterations_limit.auto
        /\ exception # "TypeError"

\* the convergence check of the pass completes in this step
ConvergenceChecked == pc = "convergence" /\ pc' = "finish"

\* C30: the CONVERGED decision depends only on the recorded mean-objective
\* history and tolerance: check_tolerance and i_violated have no influence on
\* it, and the loop can stop as CONVERGED in an iteration in which
\* check_tolerance is still False.
C30_ConvergedWhateverTolerance ==
    [][ConvergenceChecked =>
          /\ continue_iterations' =
                (continue_iterations
                 /\ ~StopsAsConverged(FI_mean, i)
                 /\ ~StopsAsConverged(energy_density_mean, i))
          /\ check_tolerance' = check_tolerance
          /\ i_violated' = i_violated]_vars

\* C30 witness: the loop stopped as CONVERGED before its limit with
\* check_tolerance still False
C30_Witness ==
    /\ pc = "done"
    /\ ~oscillations
    /\ ~continue_iterations
    /\ i < conf.iterations_limit
    /\ ~check_tolerance
    /\ i_violated = 0

\* C30 witness with the goal mass reached: the loop stopped as CONVERGED with
\* check_tolerance True
C30_WitnessTolerant ==
    /\ pc = "done"
    /\ ~oscillations
    /\ ~continue_iterations
    /\ i < conf.iterations_limit
    /\ check_tolerance
    /\ i_violated # 0
====
